---------------------------- MODULE Spec2Model ----------------------------
(***************************************************************************)
(* Model of the resume / job-fit analyzer backend:                         *)
(*   taxonomy/normalizer.py   SkillNormalizer (alias map, fuzzy cascade)   *)
(*   rules/matchers.py        match_skills, _find_skill_match              *)
(*   rules/engine.py          RuleEngine.evaluate and its component scores *)
(*   parsers/section_detector.py  _find_section_boundaries,                *)
(*                                _parse_experience                        *)
(* Strings are sequences of one-character strings, so that lower(),        *)
(* strip(), substring tests and fuzz.ratio are computed, not assumed.      *)
(* Real numbers are exact rationals [n, d] with d > 0.                     *)
(***************************************************************************)
EXTENDS Integers, Sequences, FiniteSets, TLC

VARIABLES
    skillsYaml,   \* content of taxonomy/skills.yaml
    configYaml,   \* content of rules/config.yaml
    normalizer,   \* _normalizer_instance (None until the first get_normalizer())
    engine,       \* _engine_instance (None until the first get_engine())
    normIn,       \* argument of the latest normalize_skill() call
    normOut,      \* its return value (or the exception it raised)
    normPrev,     \* the result whose canonical name was fed back (None on a fresh call)
    normChained,  \* TRUE when normIn was taken from normPrev's canonical name
    evalIn,       \* (resume, job_description) of the latest evaluate() call
    evalOut,      \* its EvaluationResult (or the exception it raised)
    evalLog,      \* the calls made so far, oldest first (determinism runs)
    skillResults, \* what match_skills returned to the latest evaluate() call
    argsAfter,    \* the caller's resume and job_description once evaluate() is over
    segIn,        \* text_blocks of the latest _find_section_boundaries() call
    segStarts,    \* its section_starts list when it returned
    segOut,       \* the boundaries dict it returned
    expIn,        \* blocks of the latest _parse_experience() call
    expOut,       \* the entries it returned
    docIn,        \* (raw_text, text_blocks) of the latest detect_sections() call
    docOut,       \* the sections dict it returned, with the texts of its fallback
    threads,      \* per thread: where it stands in get_normalizer() / get_engine()
    singletons,   \* per getter: identity of the instance in the module global, constructions so far
    sessions,     \* the session files of the storage directory, by session id
    uuids,        \* session ids generated so far
    uploads,      \* the files of the upload directory
    clock,        \* ticks of the wall clock passed since the process started
    apiResp,      \* the latest API request and its response
    lastEval,     \* per session id: the result of its latest successful POST /evaluate
    removed       \* per session id whose file was removed: by DELETE or by the cleanup

envVars == <<skillsYaml, configYaml, normalizer, engine>>
normVars == <<normIn, normOut, normPrev, normChained>>
evalVars == <<evalIn, evalOut, evalLog, skillResults, argsAfter>>

segVars == <<segIn, segStarts, segOut>>
expVars == <<expIn, expOut>>
docVars == <<docIn, docOut>>
thrVars == <<threads, singletons>>
apiVars == <<sessions, uuids, uploads, clock, apiResp, lastEval, removed>>

vars == <<envVars, normVars, evalVars, segVars, expVars, docVars, thrVars, apiVars>>

None == [st |-> "none"]

\* Python's None where a str / an int is expected
NoneStr == <<"<None>">>
NoLine == 0

-----------------------------------------------------------------------------
(* Bounds of the explored input space *)

MaxLen == 3          \* longest enumerated skill string
MaxResumeSkills == 2 \* longest enumerated resume skill list
MaxRequired == 2     \* longest enumerated JD required list
MaxOptional == 1     \* longest enumerated JD optional list
MaxCalls == 3        \* evaluate() calls in a determinism run
MaxBlocks == 2       \* longest enumerated single-column document
ColumnBlocks == 6    \* blocks in each column of a two-column document
MaxExpBlocks == 4    \* longest enumerated block list of an experience section
MaxExpLines == 2     \* longest enumerated experience text, in lines
MaxDocBlocks == 3    \* longest enumerated document of short paragraphs
MaxSessions == 2     \* session ids generated by one process
MaxStored == 1       \* session files kept in the storage directory at a time
MaxTicks == 1        \* ticks of the wall clock
TickHours == 25      \* hours in one tick
MaxThreads == 2      \* threads calling the singleton getters
MaxGetterCalls == 2  \* getter calls of one thread

-----------------------------------------------------------------------------
(* Numbers of the source *)

MaxHeaderLen == 80    \* len(text) < 80
ColumnMargin == 100   \* max(left_positions) + 100
MinColumnBlocks == 5  \* len(left_column_blocks) > 5
MaxTitleLen == 80     \* len(text) < 80 in _parse_experience

-----------------------------------------------------------------------------
(* Characters and Python str primitives *)

UpperChars == <<"A", "B", "C", "D", "E", "F", "G", "H", "I", "J", "K", "L", "M",
                "N", "O", "P", "Q", "R", "S", "T", "U", "V", "W", "X", "Y", "Z">>
LowerChars == <<"a", "b", "c", "d", "e", "f", "g", "h", "i", "j", "k", "l", "m",
                "n", "o", "p", "q", "r", "s", "t", "u", "v", "w", "x", "y", "z">>

\* characters outside ASCII, each written as one named character
cEnDash == "<en-dash>"
cEmDash == "<em-dash>"
cBullet == "<bullet>"
cSmallSquare == "<small-square>"
cCircle == "<white-circle>"
cPointerR == "<black-pointer>"
cTriangleR == "<black-triangle>"
cArrowR == "<arrow>"

Digits == {"0", "1", "2", "3", "4", "5", "6", "7", "8", "9"}

\* the characters matched by \s
Space == {" ", "\n", "\t", "\r"}

\* the lower-case letter of each upper-case letter
LowerOf ==
    [c \in {UpperChars[i] : i \in 1..Len(UpperChars)} |->
        LowerChars[CHOOSE i \in 1..Len(UpperChars) : UpperChars[i] = c]]

\* str.lower() on one character
LowerCh(c) == IF c \in DOMAIN LowerOf THEN LowerOf[c] ELSE c

\* str.lower()
Lower(s) == [i \in 1..Len(s) |-> LowerCh(s[i])]

IsSpace(c) == c \in Space

\* str.lstrip(chars): s from its first character outside chars
LStripChars(s, chars) ==
    LET keep == {i \in 1..Len(s) : s[i] \notin chars}
    IN  IF keep = {} THEN <<>>
        ELSE SubSeq(s, CHOOSE i \in keep : \A j \in keep : i <= j, Len(s))

\* str.rstrip(chars): s up to its last character outside chars
RStripChars(s, chars) ==
    LET keep == {i \in 1..Len(s) : s[i] \notin chars}
    IN  IF keep = {} THEN <<>>
        ELSE SubSeq(s, 1, CHOOSE i \in keep : \A j \in keep : j <= i)

\* str.lstrip()
LStrip(s) == LStripChars(s, Space)

\* str.rstrip()
RStrip(s) == RStripChars(s, Space)

\* str.strip()
Strip(s) == RStrip(LStrip(s))

\* str.replace(ch, "") / str.replace(ch, other) for a single character
RemoveCh(s, ch) == SelectSeq(s, LAMBDA c : c # ch)
ReplaceCh(s, ch, by) == [i \in 1..Len(s) |-> IF s[i] = ch THEN by ELSE s[i]]

\* Python's "sub in s" for strings
Contains(sub, s) ==
    \E i \in 0..(Len(s) - Len(sub)) :
        \A k \in 1..Len(sub) : s[i + k] = sub[k]

\* str.startswith(prefix)
StartsWith(s, prefix) ==
    /\ Len(prefix) <= Len(s)
    /\ \A k \in 1..Len(prefix) : s[k] = prefix[k]

Max(a, b) == IF a >= b THEN a ELSE b
Min(a, b) == IF a <= b THEN a ELSE b

-----------------------------------------------------------------------------
(* Exact rationals standing for Python floats *)

RECURSIVE Gcd(_, _)
Gcd(a, b) == IF b = 0 THEN a ELSE Gcd(b, a % b)

Abs(x) == IF x < 0 THEN -x ELSE x

\* the rational n/d in lowest terms, d > 0
Rat(n, d) ==
    LET g == Gcd(Abs(n), d)
    IN  IF g = 0 THEN [n |-> 0, d |-> 1] ELSE [n |-> n \div g, d |-> d \div g]

RInt(k) == [n |-> k, d |-> 1]

\* the value standing for a float division that raised ZeroDivisionError
ZeroDivision == [n |-> 0, d |-> 0]

\* Python's n / d on numbers
PyDiv(n, d) == IF d = 0 THEN ZeroDivision ELSE Rat(n, d)

RAdd(a, b) == Rat(a.n * b.d + b.n * a.d, a.d * b.d)
RMul(a, b) == Rat(a.n * b.n, a.d * b.d)
RLt(a, b) == a.n * b.d < b.n * a.d
RLe(a, b) == a.n * b.d <= b.n * a.d
RGt(a, b) == RLt(b, a)
RGe(a, b) == RLe(b, a)
RMax(a, b) == IF RGe(a, b) THEN a ELSE b
RMin(a, b) == IF RLe(a, b) THEN a ELSE b

-----------------------------------------------------------------------------
(* rapidfuzz *)

RECURSIVE LcsRow(_, _, _, _, _)
\* one row of the longest-common-subsequence table: prev[k] is the value for
\* the previous character of s and the first k-1 characters of t
LcsRow(prev, ch, t, j, acc) ==
    IF j > Len(t) THEN acc
    ELSE LET v == IF ch = t[j] THEN prev[j] + 1
                   ELSE Max(prev[j + 1], acc[j])
         IN  LcsRow(prev, ch, t, j + 1, Append(acc, v))

RECURSIVE LcsFrom(_, _, _, _)
LcsFrom(s, t, i, row) ==
    IF i > Len(s) THEN row[Len(t) + 1]
    ELSE LcsFrom(s, t, i + 1, LcsRow(row, s[i], t, 1, <<0>>))

Lcs(s, t) == LcsFrom(s, t, 1, [k \in 1..(Len(t) + 1) |-> 0])

\* fuzz.ratio: normalized Indel similarity, 100 * 2*LCS / (len1 + len2)
FuzzRatio(s, t) ==
    IF Len(s) + Len(t) = 0 THEN RInt(100)
    ELSE Rat(200 * Lcs(s, t), Len(s) + Len(t))

RECURSIVE BestFrom(_, _, _, _)
\* the first choice with the highest score, scanning from i
BestFrom(query, choices, i, best) ==
    IF i > Len(choices) THEN best
    ELSE LET score == FuzzRatio(query, choices[i])
         IN  IF RGt(score, best.score)
             THEN BestFrom(query, choices, i + 1,
                           [match |-> choices[i], score |-> score, idx |-> i])
             ELSE BestFrom(query, choices, i + 1, best)

\* process.extractOne(query, choices, scorer=fuzz.ratio) on a non-empty list:
\* (match, score, index) of the first best choice
ExtractOne(query, choices) ==
    BestFrom(query, choices, 2,
             [match |-> choices[1], score |-> FuzzRatio(query, choices[1]), idx |-> 1])

-----------------------------------------------------------------------------
(* taxonomy/normalizer.py : SkillNormalizer *)

RECURSIVE BuildCanonicalFrom(_, _, _)
BuildCanonicalFrom(cats, i, acc) ==
    IF i > Len(cats) THEN acc
    ELSE BuildCanonicalFrom(cats, i + 1, acc \o cats[i].canonical)

\* _build_canonical_list: flat list of every category's canonical names
BuildCanonicalList(tax) == BuildCanonicalFrom(tax.categories, 1, <<>>)

\* dict assignment  m[k] = v  on an insertion-ordered dict
DictPut(m, k, v) ==
    IF \E i \in 1..Len(m) : m[i].k = k
    THEN [i \in 1..Len(m) |-> IF m[i].k = k THEN [k |-> k, v |-> v] ELSE m[i]]
    ELSE Append(m, [k |-> k, v |-> v])

DictHas(m, k) == \E i \in 1..Len(m) : m[i].k = k
DictGet(m, k) == m[CHOOSE i \in 1..Len(m) : m[i].k = k].v
DictKeys(m) == [i \in 1..Len(m) |-> m[i].k]

\* the canonical name an alias key belongs to: the first c of the category
\* with c.lower() == key_lower or key.lower() in c.lower().replace(".", "")
CanonicalForKey(canonical_list, key) ==
    LET key_lower == ReplaceCh(Lower(key), "_", " ")
        hit(c) == \/ Lower(c) = key_lower
                  \/ Contains(Lower(key), RemoveCh(Lower(c), "."))
        hits == {i \in 1..Len(canonical_list) : hit(canonical_list[i])}
    IN  IF hits = {} THEN None
        ELSE [st |-> "ok",
              name |-> canonical_list[CHOOSE i \in hits : \A j \in hits : i <= j]]

RECURSIVE PutAliases(_, _, _, _)
PutAliases(m, alias_list, canonical_name, i) ==
    IF i > Len(alias_list) THEN m
    ELSE PutAliases(DictPut(m, Lower(alias_list[i]), canonical_name),
                    alias_list, canonical_name, i + 1)

RECURSIVE AliasesOfCategory(_, _, _)
AliasesOfCategory(m, cat, i) ==
    IF i > Len(cat.aliases) THEN m
    ELSE LET c == CanonicalForKey(cat.canonical, cat.aliases[i].key)
         IN  AliasesOfCategory(
                 IF c.st = "ok" THEN PutAliases(m, cat.aliases[i].list, c.name, 1) ELSE m,
                 cat, i + 1)

RECURSIVE BuildAliasFrom(_, _, _)
BuildAliasFrom(cats, i, m) ==
    IF i > Len(cats) THEN m
    ELSE BuildAliasFrom(cats, i + 1, AliasesOfCategory(m, cats[i], 1))

\* _build_alias_map: lower-cased alias -> canonical name
BuildAliasMap(tax) == BuildAliasFrom(tax.categories, 1, <<>>)

\* SkillNormalizer.__init__
NewNormalizer(tax) ==
    [canonical_skills |-> BuildCanonicalList(tax),
     alias_map |-> BuildAliasMap(tax),
     thresholds |-> tax.thresholds]

\* SkillNormalizer._score_to_confidence
NormScoreToConfidence(th, score) ==
    IF RGe(score, RInt(th.high_confidence)) THEN "high"
    ELSE IF RGe(score, RInt(th.medium_confidence)) THEN "medium"
    ELSE IF RGe(score, RInt(th.low_confidence)) THEN "low"
    ELSE "no_match"

NormReturn(name, conf, score) ==
    [st |-> "ok", name |-> name, conf |-> conf, score |-> score]

NormRaise(exc) == [st |-> "raise", exc |-> exc]

\* normalize, "Return best canonical match if it exists and wasn't returned above"
NormalizeFallback(self, skill, result) ==
    \* "if result:" reads a local that was never assigned
    IF self.canonical_skills = <<>> THEN NormRaise("UnboundLocalError")
    ELSE IF NormScoreToConfidence(self.thresholds, result.score) # "no_match"
    THEN NormReturn(self.canonical_skills[result.idx],
                    NormScoreToConfidence(self.thresholds, result.score), result.score)
    ELSE NormReturn(skill, "no_match", RInt(0))

\* normalize preferring any strictly better alias, whatever its score
NormalizeFuzzyAnyAlias(self, skill, result, alias_result) ==
    IF self.canonical_skills # <<>> /\ RGe(result.score, RInt(self.thresholds.high_confidence))
    THEN NormReturn(self.canonical_skills[result.idx], "high", result.score)
    ELSE IF self.alias_map # <<>>
    THEN IF self.canonical_skills = <<>> THEN NormRaise("UnboundLocalError")
         ELSE IF RGt(alias_result.score, result.score)
              THEN NormReturn(DictGet(self.alias_map, alias_result.match),
                              NormScoreToConfidence(self.thresholds, alias_result.score),
                              alias_result.score)
              ELSE NormalizeFallback(self, skill, result)
    ELSE NormalizeFallback(self, skill, result)

\* normalize, the two fuzzy steps; "result" is bound only when canonical_skills is non-empty
NormalizeFuzzy(self, skill, result, alias_result) ==
    IF self.canonical_skills # <<>> /\ RGe(result.score, RInt(self.thresholds.high_confidence))
    THEN NormReturn(self.canonical_skills[result.idx], "high", result.score)
    ELSE IF self.alias_map # <<>>
    THEN IF self.canonical_skills = <<>> THEN NormRaise("UnboundLocalError")
         ELSE IF /\ RGt(alias_result.score, result.score)
                 /\ RGe(alias_result.score, RInt(self.thresholds.medium_confidence))
              THEN NormReturn(DictGet(self.alias_map, alias_result.match),
                              NormScoreToConfidence(self.thresholds, alias_result.score),
                              alias_result.score)
              ELSE NormalizeFallback(self, skill, result)
    ELSE NormalizeFallback(self, skill, result)

\* normalize, "Check if it's already a canonical name": exactCanon holds the indices that are
NormalizeCanonical(self, skill, skill_lower, exactCanon) ==
    IF exactCanon # {}
    THEN NormReturn(self.canonical_skills[CHOOSE i \in exactCanon : \A j \in exactCanon : i <= j],
                    "high", RInt(100))
    ELSE NormalizeFuzzy(self, skill,
             ExtractOne(skill_lower,
                        [i \in 1..Len(self.canonical_skills) |-> Lower(self.canonical_skills[i])]),
             ExtractOne(skill_lower, DictKeys(self.alias_map)))

\* normalize, "Check exact alias match first"
NormalizeLower(self, skill, skill_lower) ==
    IF DictHas(self.alias_map, skill_lower)
    THEN NormReturn(DictGet(self.alias_map, skill_lower), "high", RInt(100))
    ELSE NormalizeCanonical(self, skill, skill_lower,
             {i \in 1..Len(self.canonical_skills) :
                 Lower(self.canonical_skills[i]) = skill_lower})

\* SkillNormalizer.normalize
Normalize(self, skill) == NormalizeLower(self, skill, Strip(Lower(skill)))

-----------------------------------------------------------------------------
(* rules/matchers.py *)

\* matchers._score_to_confidence
MatchScoreToConfidence(score) ==
    IF RGe(score, RInt(90)) THEN "high"
    ELSE IF RGe(score, RInt(70)) THEN "medium"
    ELSE "low"

\* skill.get("name") or skill.get("canonical_name", "")
SkillLookupName(skill) ==
    IF skill.name # <<>> THEN skill.name ELSE skill.canonical_name

RECURSIVE ResumeSkillMapFrom(_, _, _, _)
\* one turn of the resume_skill_map loop: r is what normalize returned for the skill
ResumeSkillMapPut(nz, resume_skills, i, m, r) ==
    IF r.st = "raise" THEN r
    ELSE ResumeSkillMapFrom(nz, resume_skills, i + 1,
                            DictPut(m, Lower(r.name), resume_skills[i]))

ResumeSkillMapFrom(nz, resume_skills, i, m) ==
    IF i > Len(resume_skills) THEN [st |-> "ok", map |-> m]
    ELSE ResumeSkillMapPut(nz, resume_skills, i, m,
                           Normalize(nz, SkillLookupName(resume_skills[i])))

\* the loop continued from the entries that "earlier" holds
ResumeSkillMapOnto(nz, resume_skills, earlier) ==
    IF earlier.st = "raise" THEN earlier
    ELSE ResumeSkillMapFrom(nz, resume_skills, 1, earlier.map)

\* resume_skill_map kept across calls: the previous call's entries are still in it
ResumeSkillMapShared(nz, resume_skills) ==
    ResumeSkillMapOnto(nz, resume_skills,
        IF evalLog = <<>> THEN [st |-> "ok", map |-> <<>>]
        ELSE ResumeSkillMapFrom(nz, evalLog[Len(evalLog)].input.resume.skills, 1, <<>>))

\* the resume_skill_map loop of match_skills: canonical.lower() -> skill dict
ResumeSkillMap(nz, resume_skills) == ResumeSkillMapFrom(nz, resume_skills, 1, <<>>)

\* classification of a fuzzy score in _find_skill_match
ClassifyScore(score, full_threshold, partial_threshold) ==
    IF RGe(score, RInt(full_threshold)) THEN "full"
    ELSE IF RGe(score, RInt(partial_threshold)) THEN "partial"
    ELSE "none"

RECURSIVE FuzzyBest(_, _, _, _, _, _)
\* the loop over resume_skill_map.items() in _find_skill_match
FuzzyBest(jd_lower, m, i, best, full_threshold, partial_threshold) ==
    IF i > Len(m) THEN best
    ELSE LET score == FuzzRatio(jd_lower, m[i].k)
         IN  IF RGt(score, best.score)
             THEN FuzzyBest(jd_lower, m, i + 1,
                            [match_type |-> ClassifyScore(score, full_threshold, partial_threshold),
                             score |-> score,
                             evidence |-> m[i].v.source_text,
                             line_number |-> m[i].v.line_number],
                            full_threshold, partial_threshold)
             ELSE FuzzyBest(jd_lower, m, i + 1, best, full_threshold, partial_threshold)

\* _find_skill_match without lower-casing the JD name
FindSkillMatchCaseSensitive(jd_canonical, resume_skill_map, full_threshold, partial_threshold) ==
    IF DictHas(resume_skill_map, jd_canonical)
    THEN [match_type |-> "full", score |-> RInt(100),
          evidence |-> DictGet(resume_skill_map, jd_canonical).source_text,
          line_number |-> DictGet(resume_skill_map, jd_canonical).line_number]
    ELSE FuzzyBest(jd_canonical, resume_skill_map, 1,
                   [match_type |-> "none", score |-> RInt(0),
                    evidence |-> NoneStr, line_number |-> NoLine],
                   full_threshold, partial_threshold)

\* _find_skill_match
FindSkillMatch(jd_canonical, resume_skill_map, full_threshold, partial_threshold) ==
    LET jd_lower == Lower(jd_canonical)
    IN  IF DictHas(resume_skill_map, jd_lower)
        THEN [match_type |-> "full", score |-> RInt(100),
              evidence |-> DictGet(resume_skill_map, jd_lower).source_text,
              line_number |-> DictGet(resume_skill_map, jd_lower).line_number]
        ELSE FuzzyBest(jd_lower, resume_skill_map, 1,
                       [match_type |-> "none", score |-> RInt(0),
                        evidence |-> NoneStr, line_number |-> NoLine],
                       full_threshold, partial_threshold)

\* the SkillMatch built for one JD skill, a missing one keeping the best
\* candidate's evidence and score
MakeSkillMatchKeepEvidence(jd_skill, jd_canonical, mr, priority) ==
    [skill_name |-> jd_skill, canonical_name |-> jd_canonical,
     match_type |-> IF mr.match_type = "full" THEN "matched"
                    ELSE IF mr.match_type = "partial" THEN "partial" ELSE "missing",
     confidence |-> MatchScoreToConfidence(mr.score),
     jd_priority |-> priority, evidence |-> mr.evidence,
     line_number |-> mr.line_number, match_score |-> RMul(mr.score, Rat(1, 100))]

\* the SkillMatch built for one JD skill
MakeSkillMatch(jd_skill, jd_canonical, mr, priority) ==
    IF mr.match_type = "full"
    THEN [skill_name |-> jd_skill, canonical_name |-> jd_canonical,
          match_type |-> "matched", confidence |-> MatchScoreToConfidence(mr.score),
          jd_priority |-> priority, evidence |-> mr.evidence,
          line_number |-> mr.line_number, match_score |-> RMul(mr.score, Rat(1, 100))]
    ELSE IF mr.match_type = "partial"
    THEN [skill_name |-> jd_skill, canonical_name |-> jd_canonical,
          match_type |-> "partial", confidence |-> MatchScoreToConfidence(mr.score),
          jd_priority |-> priority, evidence |-> mr.evidence,
          line_number |-> mr.line_number, match_score |-> RMul(mr.score, Rat(1, 100))]
    ELSE [skill_name |-> jd_skill, canonical_name |-> jd_canonical,
          match_type |-> "missing", confidence |-> "low",
          jd_priority |-> priority, evidence |-> NoneStr,
          line_number |-> NoLine, match_score |-> RInt(0)]

\* the first loop's body counting a partial match among the matched ones
AddRequiredPartialAsMatched(results, jd_skill, sm) ==
    IF sm.match_type = "matched" \/ sm.match_type = "partial"
    THEN [results EXCEPT !.matches = Append(@, sm),
                         !.matched_required = Append(@, jd_skill),
                         !.stats = [results.stats EXCEPT !.matched_count = @ + 1,
                                                         !.required_matched = @ + 1]]
    ELSE [results EXCEPT !.matches = Append(@, sm),
                         !.missing_required = Append(@, jd_skill),
                         !.stats = [results.stats EXCEPT !.missing_count = @ + 1]]

\* the bookkeeping of one required JD skill (body of the first loop)
AddRequired(results, jd_skill, sm) ==
    LET st == results.stats
    IN  IF sm.match_type = "matched"
        THEN [results EXCEPT !.matches = Append(@, sm),
                             !.matched_required = Append(@, jd_skill),
                             !.stats = [st EXCEPT !.matched_count = @ + 1,
                                                  !.required_matched = @ + 1]]
        ELSE IF sm.match_type = "partial"
        THEN [results EXCEPT !.matches = Append(@, sm),
                             !.partial_required = Append(@, jd_skill),
                             !.stats = [st EXCEPT !.partial_count = @ + 1]]
        ELSE [results EXCEPT !.matches = Append(@, sm),
                             !.missing_required = Append(@, jd_skill),
                             !.stats = [st EXCEPT !.missing_count = @ + 1]]

\* the second loop with the "missing" branch emitting no SkillMatch
AddOptionalDropMissing(results, jd_skill, sm) ==
    LET st == results.stats
    IN  IF sm.match_type = "matched"
        THEN [results EXCEPT !.matches = Append(@, sm),
                             !.matched_optional = Append(@, jd_skill),
                             !.stats = [st EXCEPT !.matched_count = @ + 1,
                                                  !.optional_matched = @ + 1]]
        ELSE IF sm.match_type = "partial"
        THEN [results EXCEPT !.matches = Append(@, sm),
                             !.partial_optional = Append(@, jd_skill),
                             !.stats = [st EXCEPT !.partial_count = @ + 1]]
        ELSE [results EXCEPT !.missing_optional = Append(@, jd_skill),
                             !.stats = [st EXCEPT !.missing_count = @ + 1]]

\* the second loop writing into the required bookkeeping of the first
AddOptionalAsRequired(results, jd_skill, sm) == AddRequired(results, jd_skill, sm)

\* the bookkeeping of one optional JD skill (body of the second loop)
AddOptional(results, jd_skill, sm) ==
    LET st == results.stats
    IN  IF sm.match_type = "matched"
        THEN [results EXCEPT !.matches = Append(@, sm),
                             !.matched_optional = Append(@, jd_skill),
                             !.stats = [st EXCEPT !.matched_count = @ + 1,
                                                  !.optional_matched = @ + 1]]
        ELSE IF sm.match_type = "partial"
        THEN [results EXCEPT !.matches = Append(@, sm),
                             !.partial_optional = Append(@, jd_skill),
                             !.stats = [st EXCEPT !.partial_count = @ + 1]]
        ELSE [results EXCEPT !.matches = Append(@, sm),
                             !.missing_optional = Append(@, jd_skill),
                             !.stats = [st EXCEPT !.missing_count = @ + 1]]

RECURSIVE MatchLoop(_, _, _, _, _, _, _, _)
\* one turn of a loop, given the SkillMatch sm built for the JD skill
MatchLoopAdd(nz, m, jd_skills, i, priority, results, full_threshold, partial_threshold, sm) ==
    MatchLoop(nz, m, jd_skills, i + 1, priority,
              IF priority = "required"
              THEN AddRequired(results, jd_skills[i], sm)
              ELSE AddOptional(results, jd_skills[i], sm),
              full_threshold, partial_threshold)

\* one turn of a loop, given what normalize returned for the JD skill
MatchLoopBody(nz, m, jd_skills, i, priority, results, full_threshold, partial_threshold, r) ==
    IF r.st = "raise" THEN r
    ELSE MatchLoopAdd(nz, m, jd_skills, i, priority, results, full_threshold, partial_threshold,
             MakeSkillMatch(jd_skills[i], r.name,
                 FindSkillMatch(r.name, m, full_threshold, partial_threshold),
                 priority))

\* one of the two "for jd_skill in ..." loops of match_skills
MatchLoop(nz, m, jd_skills, i, priority, results, full_threshold, partial_threshold) ==
    IF i > Len(jd_skills) THEN results
    ELSE MatchLoopBody(nz, m, jd_skills, i, priority, results, full_threshold, partial_threshold,
                       Normalize(nz, jd_skills[i]))

\* the results dict as match_skills initialises it
NewResults(jd_required_skills, jd_optional_skills) ==
    [st |-> "ok",
     matches |-> <<>>,
     matched_required |-> <<>>, matched_optional |-> <<>>,
     partial_required |-> <<>>, partial_optional |-> <<>>,
     missing_required |-> <<>>, missing_optional |-> <<>>,
     stats |-> [matched_count |-> 0, partial_count |-> 0, missing_count |-> 0,
                required_matched |-> 0,
                required_total |-> Len(jd_required_skills),
                optional_matched |-> 0,
                optional_total |-> Len(jd_optional_skills)]]

\* match_skills, "Match optional skills", after the required loop returned afterRequired
MatchOptional(nz, m, jd_optional_skills, afterRequired, full_match_threshold, partial_match_threshold) ==
    IF afterRequired.st = "raise" THEN afterRequired
    ELSE MatchLoop(nz, m, jd_optional_skills, 1, "optional", afterRequired,
                   full_match_threshold, partial_match_threshold)

\* match_skills, the two loops over the JD skills, given the resume_skill_map loop's outcome
MatchBoth(nz, m, jd_required_skills, jd_optional_skills, full_match_threshold, partial_match_threshold) ==
    IF m.st = "raise" THEN m
    ELSE MatchOptional(nz, m.map, jd_optional_skills,
             MatchLoop(nz, m.map, jd_required_skills, 1, "required",
                       NewResults(jd_required_skills, jd_optional_skills),
                       full_match_threshold, partial_match_threshold),
             full_match_threshold, partial_match_threshold)

\* match_skills
MatchSkills(nz, resume_skills, jd_required_skills, jd_optional_skills, full_match_threshold, partial_match_threshold) ==
    MatchBoth(nz, ResumeSkillMap(nz, resume_skills), jd_required_skills, jd_optional_skills,
              full_match_threshold, partial_match_threshold)

-----------------------------------------------------------------------------
(* rules/engine.py : RuleEngine *)

\* RuleEngine.__init__: the sections of config.yaml the engine keeps
NewEngine(cfg) ==
    [config |-> cfg,
     weights |-> cfg.scoring.weights,
     thresholds |-> cfg.scoring.match_thresholds,
     penalties |-> cfg.scoring.penalties,
     bounds |-> cfg.scoring.score_bounds,
     enforcement |-> cfg.scoring.required_skill_enforcement]

\* floor of a rational
RFloor(r) == r.n \div r.d

\* Python round() / format(x, ".0f"): round half to even
RoundHalfEven(r) ==
    LET q == RFloor(r)
        rem2 == 2 * (r.n - q * r.d)
    IN  IF rem2 < r.d THEN q
        ELSE IF rem2 > r.d THEN q + 1
        ELSE IF q % 2 = 0 THEN q ELSE q + 1

\* min(100.0, x) where computing x may have raised
MinWith100(x) == IF x = ZeroDivision THEN ZeroDivision ELSE RMin(RInt(100), x)

\* _calculate_required_skills_score without its "if total == 0" guard
CalculateRequiredSkillsScoreUnguarded(skill_results) ==
    LET stats == skill_results.stats
    IN  MinWith100(PyDiv(stats.required_matched * 100
                             + Len(skill_results.partial_required) * 50,
                         stats.required_total))

\* _calculate_required_skills_score giving partial matches no credit
CalculateRequiredSkillsScoreFullOnly(skill_results) ==
    LET stats == skill_results.stats
    IN  IF stats.required_total = 0 THEN RInt(100)
        ELSE MinWith100(PyDiv(stats.required_matched * 100, stats.required_total))

\* _calculate_required_skills_score
CalculateRequiredSkillsScore(skill_results) ==
    LET stats == skill_results.stats
    IN  IF stats.required_total = 0 THEN RInt(100)
        ELSE MinWith100(PyDiv(stats.required_matched * 100
                                  + Len(skill_results.partial_required) * 50,
                              stats.required_total))

\* _calculate_optional_skills_score
CalculateOptionalSkillsScore(skill_results) ==
    LET stats == skill_results.stats
    IN  IF stats.optional_total = 0 THEN RInt(100)
        ELSE MinWith100(PyDiv(stats.optional_matched * 100
                                  + Len(skill_results.partial_optional) * 50,
                              stats.optional_total))

RECURSIVE JoinFrom(_, _, _, _)
JoinFrom(parts, sep, i, acc) ==
    IF i > Len(parts) THEN acc
    ELSE JoinFrom(parts, sep, i + 1, IF i = 1 THEN parts[i] ELSE acc \o sep \o parts[i])

\* sep.join(parts)
Join(parts, sep) == JoinFrom(parts, sep, 1, <<>>)

\* re.search(pattern, text, re.IGNORECASE) for a literal pattern
SearchLiteral(pattern, text) == Contains(Lower(pattern), Lower(text))

\* the bonus of one entry in one category when every matching pattern adds to it
SignalBonusPerPattern(signals, category, points, text) ==
    IF category \in signals.present
    THEN RMul(RInt(points * Cardinality({i \in 1..Len(signals[category].patterns) :
                                           SearchLiteral(signals[category].patterns[i], text)})),
              signals[category].weight)
    ELSE RInt(0)

\* the bonus one entry earns in one signal category (first matching pattern, then break)
SignalBonus(signals, category, points, text) ==
    IF category \in signals.present
       /\ \E i \in 1..Len(signals[category].patterns) :
              SearchLiteral(signals[category].patterns[i], text)
    THEN RMul(RInt(points), signals[category].weight)
    ELSE RInt(0)

RECURSIVE ExperienceFrom(_, _, _, _)
ExperienceFrom(signals, experience, i, score) ==
    IF i > Len(experience) THEN score
    ELSE LET text == Lower(experience[i].description)
                         \o Lower(Join(experience[i].responsibilities, <<" ">>))
         IN  ExperienceFrom(signals, experience, i + 1,
                 RAdd(RAdd(RAdd(score, SignalBonus(signals, "leadership", 10, text)),
                           SignalBonus(signals, "scale", 10, text)),
                      SignalBonus(signals, "technical_depth", 8, text)))

\* _calculate_experience_score
CalculateExperienceScore(self, resume) ==
    IF resume.experience = <<>> THEN RInt(50)
    ELSE RMin(RInt(100),
              ExperienceFrom(self.config.experience_signals, resume.experience, 1, RInt(50)))

\* the score of the first configured degree keyword contained in the degree
DegreeLevel(degree_levels, degree) ==
    LET hits == {i \in 1..Len(degree_levels) : Contains(degree_levels[i].k, Lower(degree))}
    IN  IF hits = {} THEN None
        ELSE [st |-> "ok",
              score |-> degree_levels[CHOOSE i \in hits : \A j \in hits : i <= j].v]

RECURSIVE MaxDegreeFrom(_, _, _, _)
MaxDegreeFrom(degree_levels, education, i, max_score) ==
    IF i > Len(education) THEN max_score
    ELSE LET d == DegreeLevel(degree_levels, education[i].degree)
         IN  MaxDegreeFrom(degree_levels, education, i + 1,
                           IF d.st = "ok" THEN RMax(max_score, RInt(d.score)) ELSE max_score)

RECURSIVE SplitFrom(_, _, _, _)
SplitFrom(s, i, word, acc) ==
    IF i > Len(s) THEN (IF word = <<>> THEN acc ELSE Append(acc, word))
    ELSE IF IsSpace(s[i])
         THEN SplitFrom(s, i + 1, <<>>, IF word = <<>> THEN acc ELSE Append(acc, word))
         ELSE SplitFrom(s, i + 1, Append(word, s[i]), acc)

\* str.split()
Split(s) == SplitFrom(s, 1, <<>>, <<>>)

\* any(word in jd_edu for word in edu.field_of_study.lower().split())
FieldMatches(jd_edu, field_of_study) ==
    LET words == Split(Lower(field_of_study))
    IN  \E i \in 1..Len(words) : Contains(words[i], jd_edu)

\* _calculate_education_score with max_score starting at 0 instead of 50.0
CalculateEducationScoreNoBaseline(self, resume, job_description) ==
    IF resume.education = <<>> THEN RInt(50)
    ELSE RMin(RInt(100),
              RAdd(MaxDegreeFrom(self.config.education.degree_levels, resume.education, 1, RInt(0)),
                   IF /\ job_description.education_requirements # NoneStr
                      /\ job_description.education_requirements # <<>>
                      /\ \E i \in 1..Len(resume.education) :
                            /\ resume.education[i].field_of_study # NoneStr
                            /\ resume.education[i].field_of_study # <<>>
                            /\ FieldMatches(Lower(job_description.education_requirements),
                                            resume.education[i].field_of_study)
                   THEN RInt(self.config.education.field_match_bonus)
                   ELSE RInt(0)))

\* _calculate_education_score
CalculateEducationScore(self, resume, job_description) ==
    IF resume.education = <<>> THEN RInt(50)
    ELSE LET education_config == self.config.education
             max_score == MaxDegreeFrom(education_config.degree_levels,
                                        resume.education, 1, RInt(50))
             jd_edu == Lower(job_description.education_requirements)
             bonus ==
                 IF /\ job_description.education_requirements # NoneStr
                    /\ job_description.education_requirements # <<>>
                    /\ \E i \in 1..Len(resume.education) :
                          /\ resume.education[i].field_of_study # NoneStr
                          /\ resume.education[i].field_of_study # <<>>
                          /\ FieldMatches(jd_edu, resume.education[i].field_of_study)
                 THEN RInt(education_config.field_match_bonus)
                 ELSE RInt(0)
         IN  RMin(RInt(100), RAdd(max_score, bonus))

\* _bound_score reduced to round(score), without the clamp
BoundScoreUnclamped(self, score) == RoundHalfEven(score)

\* _bound_score
BoundScore(self, score) ==
    RoundHalfEven(RMax(RInt(self.bounds.min), RMin(RInt(self.bounds.max), score)))

\* Step 3 of evaluate: the weighted sum of the four component scores
WeightedSum(self, required_score, optional_score, experience_score, education_score) ==
    RAdd(RAdd(RAdd(RMul(required_score, self.weights.required_skills),
                   RMul(optional_score, self.weights.optional_skills)),
              RMul(experience_score, self.weights.experience_depth)),
         RMul(education_score, self.weights.education_match))

\* Step 4 of evaluate without the max() against max_penalty
SkillPenaltyUnfloored(self, missing_required_count) ==
    IF missing_required_count > 0
    THEN missing_required_count * self.penalties.missing_required_skill
    ELSE 0

\* Step 4 of evaluate: the (negative) amount added for missing required skills
SkillPenalty(self, missing_required_count) ==
    IF missing_required_count > 0
    THEN Max(missing_required_count * self.penalties.missing_required_skill,
             self.penalties.max_penalty)
    ELSE 0

\* Step 5 of evaluate: TRUE when the required-skill minimum is not met
BelowRequiredMinimum(self, stats) ==
    /\ stats.required_total > 0
    /\ RLt(PyDiv(stats.required_matched, stats.required_total),
           self.enforcement.minimum_required_matched)

\* Step 4 of evaluate alone: the penalty without the cap of Step 5
PenalizedScoreUncapped(self, skill_results, weighted_score) ==
    RAdd(weighted_score, RInt(SkillPenalty(self, Len(skill_results.missing_required))))

\* Steps 4 and 5 of evaluate: penalty, then the cap
PenalizedScore(self, skill_results, weighted_score) ==
    LET afterPenalty ==
            RAdd(weighted_score,
                 RInt(SkillPenalty(self, Len(skill_results.missing_required))))
        cap == RInt(self.enforcement.below_minimum_cap)
    IN  IF BelowRequiredMinimum(self, skill_results.stats) /\ RGt(afterPenalty, cap)
        THEN cap
        ELSE afterPenalty

\* the penalties_applied log of evaluate
PenaltiesApplied(self, skill_results, weighted_score) ==
    LET k == Len(skill_results.missing_required)
        afterPenalty == RAdd(weighted_score, RInt(SkillPenalty(self, k)))
        missingNote == IF k > 0
                       THEN <<[kind |-> "missing_required", count |-> k,
                               points |-> SkillPenalty(self, k)]>>
                       ELSE <<>>
        capNote == IF /\ BelowRequiredMinimum(self, skill_results.stats)
                      /\ RGt(afterPenalty, RInt(self.enforcement.below_minimum_cap))
                   THEN <<[kind |-> "capped", count |-> 0,
                           points |-> self.enforcement.below_minimum_cap]>>
                   ELSE <<>>
    IN  missingNote \o capNote

\* list[:n]
Take(seq, n) == SubSeq(seq, 1, Min(n, Len(seq)))

\* _generate_explanation stating the overall matched count for the required skills
GenerateExplanationOverallCount(score, skill_results, required_score, optional_score, experience_score, education_score) ==
    [score |-> score,
     required_matched |-> skill_results.stats.matched_count,
     required_total |-> skill_results.stats.required_total,
     required_pct |-> RoundHalfEven(required_score),
     optional_matched |-> skill_results.stats.optional_matched,
     optional_total |-> skill_results.stats.optional_total,
     optional_pct |-> RoundHalfEven(optional_score),
     experience_pct |-> RoundHalfEven(experience_score),
     education_pct |-> RoundHalfEven(education_score),
     missing_required |-> Take(skill_results.missing_required, 5),
     partial_required |-> Take(skill_results.partial_required, 5)]

\* _generate_explanation: the numeric facts and skill names of the text
GenerateExplanation(score, skill_results, required_score, optional_score, experience_score, education_score) ==
    [score |-> score,
     required_matched |-> skill_results.stats.required_matched,
     required_total |-> skill_results.stats.required_total,
     required_pct |-> RoundHalfEven(required_score),
     optional_matched |-> skill_results.stats.optional_matched,
     optional_total |-> skill_results.stats.optional_total,
     optional_pct |-> RoundHalfEven(optional_score),
     experience_pct |-> RoundHalfEven(experience_score),
     education_pct |-> RoundHalfEven(education_score),
     missing_required |-> Take(skill_results.missing_required, 5),
     partial_required |-> Take(skill_results.partial_required, 5)]

\* the confidence decision without its "elif len(resume.skills) < 3" branch
OverallConfidenceNoLow(resume, job_description) ==
    IF /\ Len(resume.experience) > 0
       /\ Len(resume.skills) > 5
       /\ Len(job_description.required_skills) > 0
    THEN "high"
    ELSE "medium"

\* "Determine overall confidence" in evaluate
OverallConfidence(resume, job_description) ==
    IF /\ Len(resume.experience) > 0
       /\ Len(resume.skills) > 5
       /\ Len(job_description.required_skills) > 0
    THEN "high"
    ELSE IF Len(resume.skills) < 3 THEN "low"
    ELSE "medium"

\* the Field(ge=0.0, le=100.0) constraints of ScoreBreakdown / EvaluationResult
InPercentRange(r) == RGe(r, RInt(0)) /\ RLe(r, RInt(100))

\* evaluate, "Build result": the EvaluationResult, validated by its schema
BuildResult(self, resume, job_description, skill_results, s, weighted_score, final_score) ==
    IF ~ (/\ InPercentRange(s.required_score) /\ InPercentRange(s.optional_score)
          /\ InPercentRange(s.experience_score) /\ InPercentRange(s.education_score)
          /\ final_score >= 0 /\ final_score <= 100)
    THEN [st |-> "raise", exc |-> "ValidationError"]
    ELSE [st |-> "ok",
          job_fit_score |-> final_score,
          confidence_level |-> OverallConfidence(resume, job_description),
          score_breakdown |->
              [required_skills_score |-> s.required_score,
               optional_skills_score |-> s.optional_score,
               experience_depth_score |-> s.experience_score,
               education_match_score |-> s.education_score,
               weights_applied |-> self.weights,
               penalties_applied |-> PenaltiesApplied(self, skill_results, weighted_score)],
          skill_matches |-> skill_results.matches,
          matched_count |-> skill_results.stats.matched_count,
          partial_count |-> skill_results.stats.partial_count,
          missing_count |-> skill_results.stats.missing_count,
          explanation |-> GenerateExplanation(final_score, skill_results,
                              s.required_score, s.optional_score,
                              s.experience_score, s.education_score)]

\* evaluate, Steps 4 to 6: penalty, cap and bound applied to the weighted score
EvaluateWeighted(self, resume, job_description, skill_results, s, weighted_score) ==
    BuildResult(self, resume, job_description, skill_results, s, weighted_score,
                BoundScore(self, PenalizedScore(self, skill_results, weighted_score)))

\* evaluate, Step 2: the four component scores
ComponentScores(self, resume, job_description, skill_results) ==
    [required_score |-> CalculateRequiredSkillsScore(skill_results),
     optional_score |-> CalculateOptionalSkillsScore(skill_results),
     experience_score |-> CalculateExperienceScore(self, resume),
     education_score |-> CalculateEducationScore(self, resume, job_description)]

\* evaluate, Step 3: a division by zero in a component propagates, else the weighted sum
EvaluateScored(self, resume, job_description, skill_results, s) ==
    IF s.required_score = ZeroDivision \/ s.optional_score = ZeroDivision
    THEN [st |-> "raise", exc |-> "ZeroDivisionError"]
    ELSE EvaluateWeighted(self, resume, job_description, skill_results, s,
             WeightedSum(self, s.required_score, s.optional_score,
                         s.experience_score, s.education_score))

\* evaluate after Step 1: an exception out of match_skills propagates
EvaluateMatched(self, resume, job_description, skill_results) ==
    IF skill_results.st = "raise" THEN skill_results
    ELSE EvaluateScored(self, resume, job_description, skill_results,
             ComponentScores(self, resume, job_description, skill_results))

\* RuleEngine.evaluate
Evaluate(self, nz, resume, job_description) ==
    EvaluateMatched(self, resume, job_description,
        MatchSkills(nz, resume.skills,
                    job_description.required_skills,
                    job_description.optional_skills,
                    self.thresholds.full_match,
                    self.thresholds.partial_match))

-----------------------------------------------------------------------------
(* Input data: skill strings, taxonomies, configurations, resumes, JDs *)

sPython == <<"P", "y", "t", "h", "o", "n">>
sReact == <<"R", "e", "a", "c", "t">>
sAWS == <<"A", "W", "S">>
sDocker == <<"D", "o", "c", "k", "e", "r">>
sGolang == <<"G", "o", "l", "a", "n", "g">>
sGolan == <<"G", "o", "l", "a", "n">>
sGola == <<"G", "o", "l", "a">>
sJava == <<"J", "a", "v", "a">>
sSQL == <<"S", "Q", "L">>

\* all sequences over S of length at most n
SeqsUpTo(S, n) == UNION {[1..k -> S] : k \in 0..n}

Alphabet == {"a", "b", "B"}

\* categories -> {canonical, aliases}, thresholds: the schema of skills.yaml
DefaultThresholds ==
    [exact_match |-> 100, high_confidence |-> 90,
     medium_confidence |-> 75, low_confidence |-> 60]

LooseThresholds ==
    [exact_match |-> 100, high_confidence |-> 80,
     medium_confidence |-> 65, low_confidence |-> 50]

TaxTech ==
    [categories |->
        <<[canonical |-> <<sPython, sJava>>,
           aliases |-> <<[key |-> <<"p", "y", "t", "h", "o", "n">>, list |-> <<<<"p", "y">>>>]>>],
          [canonical |-> <<sReact, sAWS, sDocker, sSQL>>,
           aliases |-> <<[key |-> <<"a", "w", "s">>, list |-> <<<<"a", "m", "a", "z", "o", "n">>>>]>>]>>,
     thresholds |-> DefaultThresholds]

TaxShort ==
    [categories |->
        <<[canonical |-> <<<<"A", "b">>, <<"B", "a">>>>,
           aliases |-> <<[key |-> <<"a", "b">>, list |-> <<<<"a">>>>]>>]>>,
     thresholds |-> DefaultThresholds]

TaxLoose == [TaxShort EXCEPT !.thresholds = LooseThresholds]

TaxAliasFuzzy ==
    [categories |->
        <<[canonical |-> <<<<"B", "a">>>>,
           aliases |-> <<[key |-> <<"b", "a">>, list |-> <<<<"a", "a", "b">>>>]>>]>>,
     thresholds |-> DefaultThresholds]

\* the lower-case form of canonical "B" is an alias of canonical "A"
TaxCollide ==
    [categories |->
        <<[canonical |-> <<<<"A">>, <<"B">>>>,
           aliases |-> <<[key |-> <<"a">>, list |-> <<<<"b">>>>]>>]>>,
     thresholds |-> DefaultThresholds]

TaxEmpty == [categories |-> <<>>, thresholds |-> DefaultThresholds]

NormTaxonomies == {TaxTech, TaxShort, TaxLoose, TaxAliasFuzzy, TaxCollide, TaxEmpty}

NormInputs == SeqsUpTo(Alphabet, MaxLen) \cup {sPython, <<" ", "A", "b", " ">>, <<"p", "y">>, <<"P", "y", "t", "h", "o">>, <<"a", "m", "a", "z", "n">>}

\* an ExtractedSkill dumped to a dict by evaluate (model_dump)
MkSkill(name, canonical_name) ==
    [name |-> name, canonical_name |-> canonical_name,
     source_text |-> name, line_number |-> NoLine]

ResumeSkillNames == {sPython, sGolang}

\* the resume of test_evaluation.mock_resume: python, react, aws
MockResumeSkills ==
    <<MkSkill(<<"p", "y", "t", "h", "o", "n">>, sPython), MkSkill(<<"r", "e", "a", "c", "t">>, sReact), MkSkill(<<"a", "w", "s">>, sAWS)>>

\* a resume listing six skills, one of them with an empty surface name
SixResumeSkills ==
    <<MkSkill(sPython, sPython), MkSkill(sReact, sReact), MkSkill(<<>>, sAWS),
      MkSkill(sDocker, sDocker), MkSkill(sJava, sJava), MkSkill(sSQL, sSQL)>>

\* five skills: one short of "more than 5"
FiveResumeSkills == SubSeq(SixResumeSkills, 1, 5)

ResumeSkillLists ==
    {[i \in 1..Len(names) |-> MkSkill(names[i], names[i])] :
        names \in SeqsUpTo(ResumeSkillNames, MaxResumeSkills)}
    \cup {MockResumeSkills, SixResumeSkills}

JDSkillNames == {sPython, sGola}

\* four required skills none of which a Python-only resume has
FourRequired == <<sDocker, sReact, sAWS, sGola>>

RequiredLists ==
    SeqsUpTo(JDSkillNames, MaxRequired) \cup {FourRequired, <<sPython, sReact>>}

OptionalSkillNames == {sPython, sGolan}

OptionalLists ==
    SeqsUpTo(OptionalSkillNames, MaxOptional) \cup {<<sAWS, sDocker>>}

MkExperience(description, responsibilities) ==
    [company |-> <<"T", "e", "c", "h", "C", "o", "r", "p">>, title |-> <<"E", "n", "g", "i", "n", "e", "e", "r">>,
     description |-> description, responsibilities |-> responsibilities]

MkEducation(degree, field_of_study) ==
    [institution |-> <<"S", "t", "a", "n", "f", "o", "r", "d">>, degree |-> degree, field_of_study |-> field_of_study]

\* experience, education and the JD's education requirement, varied together
NoBackground ==
    [experience |-> <<>>, education |-> <<>>, education_requirements |-> NoneStr]

MockBackground ==
    [experience |-> <<MkExperience(<<"B", "u", "i", "l", "t", " ", "a", "p", "p", "s">>, <<<<"D", "e", "v", "e", "l", "o", "p", "e", "d", " ", "A", "P", "I", "s">>, <<"L", "e", "d", " ", "t", "e", "a", "m", " ", "o", "f", " ", "3">>>>)>>,
     education |-> <<MkEducation(<<"M", ".", "S", ".", " ", "C", "S">>, NoneStr)>>,
     education_requirements |-> NoneStr]

PlainBackground ==
    [experience |-> <<MkExperience(<<>>, <<<<"w", "r", "o", "t", "e", " ", "c", "o", "d", "e">>>>)>>,
     education |-> <<MkEducation(<<"B", "a", "c", "h", "e", "l", "o", "r", " ", "o", "f", " ", "S", "c", "i", "e", "n", "c", "e">>, <<"A", "p", "p", "l", "i", "e", "d", " ", "P", "h", "y", "s", "i", "c", "s">>)>>,
     education_requirements |-> <<"d", "e", "g", "r", "e", "e", " ", "i", "n", " ", "p", "h", "y", "s", "i", "c", "s">>]

StrongBackground ==
    [experience |-> <<MkExperience(<<"L", "e", "d", " ", "a", "n", "d", " ", "s", "c", "a", "l", "e", "d">>, <<<<"A", "r", "c", "h", "i", "t", "e", "c", "t", "e", "d", " ", "A", "P", "I", "s">>>>),
                      MkExperience(<<"M", "a", "n", "a", "g", "e", "d", " ", "o", "p", "s">>, <<<<"s", "c", "a", "l", "e", "d">>, <<"a", "r", "c", "h", "i", "t", "e", "c", "t", "e", "d">>>>)>>,
     education |-> <<MkEducation(<<"B", "a", "c", "h", "e", "l", "o", "r", " ", "o", "f", " ", "S", "c", "i", "e", "n", "c", "e">>, NoneStr), MkEducation(<<"P", "h", "D">>, <<"A", "p", "p", "l", "i", "e", "d", " ", "P", "h", "y", "s", "i", "c", "s">>)>>,
     education_requirements |-> <<"P", "h", "D", " ", "i", "n", " ", "p", "h", "y", "s", "i", "c", "s">>]

\* a degree no configured keyword occurs in (but "diploma", where configured);
\* the field "IT" is no word of the requirement but occurs inside "quantitative"
DiplomaBackground ==
    [experience |-> <<>>,
     education |-> <<MkEducation(<<"D", "i", "p", "l", "o", "m", "a">>, <<"I", "T">>)>>,
     education_requirements |-> <<"q", "u", "a", "n", "t", "i", "t", "a", "t", "i", "v", "e", " ", "d", "e", "g", "r", "e", "e">>]

Backgrounds == {NoBackground, MockBackground, PlainBackground, StrongBackground, DiplomaBackground}

\* the scoring, experience_signals and education sections of config.yaml
DefaultConfig ==
    [scoring |->
        [weights |-> [required_skills |-> Rat(40, 100), optional_skills |-> Rat(20, 100),
                      experience_depth |-> Rat(25, 100), education_match |-> Rat(15, 100)],
         match_thresholds |-> [full_match |-> 90, partial_match |-> 70],
         penalties |-> [missing_required_skill |-> -5, max_penalty |-> -20],
         score_bounds |-> [min |-> 0, max |-> 100],
         required_skill_enforcement |->
             [minimum_required_matched |-> Rat(1, 2), below_minimum_cap |-> 40]],
     experience_signals |->
        [present |-> {"leadership", "scale", "technical_depth"},
         leadership |-> [patterns |-> <<<<"l", "e", "d">>, <<"m", "a", "n", "a", "g", "e", "d">>>>, weight |-> RInt(1)],
         scale |-> [patterns |-> <<<<"s", "c", "a", "l", "e", "d">>>>, weight |-> Rat(4, 5)],
         technical_depth |-> [patterns |-> <<<<"a", "r", "c", "h", "i", "t", "e", "c", "t", "e", "d">>>>, weight |-> RInt(1)]],
     education |->
        [degree_levels |-> <<[k |-> <<"p", "h", "d">>, v |-> 100], [k |-> <<"m", "a", "s", "t", "e", "r">>, v |-> 85],
                             [k |-> <<"m", ".", "s", ".">>, v |-> 85], [k |-> <<"b", "a", "c", "h", "e", "l", "o", "r">>, v |-> 70]>>,
         field_match_bonus |-> 10]]

\* heavier penalties, a stricter minimum, lower match thresholds and only the
\* leadership signals configured
HarshConfig ==
    [DefaultConfig EXCEPT
        !.scoring.match_thresholds = [full_match |-> 85, partial_match |-> 60],
        !.scoring.penalties = [missing_required_skill |-> -15, max_penalty |-> -50],
        !.scoring.required_skill_enforcement =
            [minimum_required_matched |-> Rat(3, 4), below_minimum_cap |-> 30],
        !.experience_signals.present = {"leadership"},
        !.education.degree_levels = Append(@, [k |-> <<"d", "i", "p", "l", "o", "m", "a">>, v |-> 40])]

\* weights that do not sum to 1 (the sum is not enforced at runtime)
HeavyConfig ==
    [DefaultConfig EXCEPT
        !.scoring.weights = [required_skills |-> Rat(80, 100), optional_skills |-> Rat(40, 100),
                             experience_depth |-> Rat(25, 100), education_match |-> Rat(15, 100)],
        !.scoring.penalties = [missing_required_skill |-> -2, max_penalty |-> -4]]

Configs == {DefaultConfig, HarshConfig, HeavyConfig}

MkInput(sk, req, opt, bg) ==
    [resume |-> [skills |-> sk, experience |-> bg.experience,
                 education |-> bg.education,
                 contact_info |-> [email |-> <<"a", "@", "b">>, phone |-> NoneStr]],
     job_description |-> [required_skills |-> req, optional_skills |-> opt,
                          education_requirements |-> bg.education_requirements]]

\* skill lists whose evaluation is run under every background
NamedSkillCases ==
    {<<MockResumeSkills, <<sPython, sReact>>, <<sAWS, sDocker>>>>,
     <<SixResumeSkills, <<sPython, sReact>>, <<>>>>,
     <<FiveResumeSkills, <<sPython, sReact>>, <<>>>>,
     <<<<MkSkill(sPython, sPython)>>, FourRequired, <<>>>>,
     <<<<MkSkill(sPython, sPython)>>, FourRequired, <<sPython>>>>,
     <<<<MkSkill(sPython, sPython)>>, <<sDocker, sReact>>, <<sPython>>>>,
     <<<<>>, <<>>, <<>>>>,
     <<<<MkSkill(sGolang, sGolang)>>, <<sGolan, sGola>>, <<sGola>>>>,
     <<MockResumeSkills, <<sPython, sReact, sGola>>, <<sAWS>>>>}

\* the (resume, job_description) pairs handed to evaluate: every enumerated
\* skill-list combination under the mock background, and the named skill
\* cases under every background
EvalInputs ==
    {MkInput(sk, req, opt, MockBackground) :
        sk \in ResumeSkillLists, req \in RequiredLists, opt \in OptionalLists}
    \cup {MkInput(c[1], c[2], c[3], bg) : c \in NamedSkillCases, bg \in Backgrounds}

\* (skills.yaml, config.yaml) of the processes explored
EvalEnvironments ==
    {<<TaxTech, cfg>> : cfg \in Configs} \cup {<<TaxEmpty, DefaultConfig>>}

\* the resume_skill_map loop lower-casing each skill's name in the object it was given
ArgumentsLowerCased(input) ==
    [input EXCEPT !.resume.skills =
        [i \in 1..Len(@) |-> [@[i] EXCEPT !.name = Lower(@)]]]

\* the objects passed to evaluate, as the call leaves them: evaluate hands
\* match_skills a model_dump() copy of each skill, and neither function
\* assigns to a field of resume or job_description or appends to their lists
ArgumentsAfterEvaluate(input) == input

-----------------------------------------------------------------------------
(* The lazily constructed singletons *)

\* get_normalizer(): the instance after the call
GetNormalizer == IF normalizer = None THEN NewNormalizer(skillsYaml) ELSE normalizer

\* get_engine(): the instance after the call
GetEngine == IF engine = None THEN NewEngine(configYaml) ELSE engine

NormIdle ==
    /\ normIn = NoneStr /\ normOut = None /\ normPrev = None /\ normChained = FALSE

EvalIdle ==
    /\ evalIn = None /\ evalOut = None /\ evalLog = <<>> /\ skillResults = None
    /\ argsAfter = None

\* the threads of the process and the two module-level getters
Threads == 1..MaxThreads
Getters == {"normalizer", "engine"}

\* a thread outside both getters; "got" lists what its calls returned
IdleThread == [pc |-> "idle", getter |-> "none", local |-> 0, got |-> <<>>]

ThreadsIdle ==
    /\ threads = [t \in Threads |-> IdleThread]
    /\ singletons = [g \in Getters |-> [id |-> 0, constructed |-> 0]]

\* an empty storage directory, no request made yet
ApiIdle ==
    /\ sessions = <<>> /\ uuids = 0 /\ uploads = {} /\ clock = 0
    /\ apiResp = None /\ lastEval = <<>> /\ removed = {}

ParsersIdle ==
    /\ segIn = None /\ segStarts = None /\ segOut = None
    /\ expIn = None /\ expOut = None
    /\ docIn = None /\ docOut = None
    /\ ThreadsIdle
    /\ ApiIdle

-----------------------------------------------------------------------------
(* SpecNorm: calls of normalize_skill on one taxonomy *)

NormInit ==
    /\ skillsYaml \in NormTaxonomies
    /\ configYaml = None
    /\ normalizer = None
    /\ engine = None
    /\ NormIdle
    /\ EvalIdle
    /\ ParsersIdle

\* normalize_skill(skill) on a fresh input
NormalizeSkill(skill) ==
    /\ normalizer' = GetNormalizer
    /\ normIn' = skill
    /\ normPrev' = None
    /\ normOut' = Normalize(GetNormalizer, skill)
    /\ normChained' = FALSE
    /\ UNCHANGED <<skillsYaml, configYaml, engine, evalVars, segVars, expVars, docVars, thrVars, apiVars>>

\* normalize_skill(normalize_skill(x)[0]): the previous canonical name is fed back
NormalizeAgain ==
    /\ normOut.st = "ok"
    /\ normalizer' = GetNormalizer
    /\ normIn' = normOut.name
    /\ normPrev' = normOut
    /\ normOut' = Normalize(GetNormalizer, normOut.name)
    /\ normChained' = TRUE
    /\ UNCHANGED <<skillsYaml, configYaml, engine, evalVars, segVars, expVars, docVars, thrVars, apiVars>>

NormNext ==
    \/ \E skill \in NormInputs : NormalizeSkill(skill)
    \/ NormalizeAgain

SpecNorm == NormInit /\ [][NormNext]_vars

\* C10: normalize is idempotent on its canonical output:
\* normalize(normalize(x)[0])[0] == normalize(x)[0] for every x and taxonomy,
\* also when a canonical name's lower-case form is a key of the alias table
NormalizeIdempotent ==
    (normChained /\ normPrev.st = "ok") =>
        (normOut.st = "ok" /\ normOut.name = normPrev.name)

\* TRUE when the loaded taxonomy has no canonical skill and no alias
EmptyTaxonomyLoaded ==
    /\ normalizer # None
    /\ normalizer.canonical_skills = <<>>
    /\ normalizer.alias_map = <<>>

\* C11: with an empty taxonomy (no canonical skills, no aliases) normalize(x)
\* returns (x, "no_match", 0.0) for every skill string x and raises nothing.
EmptyTaxonomyNoMatch ==
    (EmptyTaxonomyLoaded /\ normOut # None) =>
        normOut = NormReturn(normIn, "no_match", RInt(0))

\* the highest fuzz.ratio of x over a non-empty list of names
BestOver(x, names) ==
    LET scores == {FuzzRatio(x, names[i]) : i \in 1..Len(names)}
    IN  CHOOSE s \in scores : \A u \in scores : RGe(s, u)

\* the first name of the list that attains score s
FirstAt(x, names, s) ==
    CHOOSE i \in 1..Len(names) :
        /\ FuzzRatio(x, names[i]) = s
        /\ \A j \in 1..(i - 1) : FuzzRatio(x, names[j]) # s

LowerNames(names) == [i \in 1..Len(names) |-> Lower(names[i])]

\* x is neither an alias key nor the lower-case form of a canonical name
NoExactHit(self, x) ==
    /\ ~DictHas(self.alias_map, x)
    /\ \A i \in 1..Len(self.canonical_skills) : Lower(self.canonical_skills[i]) # x

\* the cascade on the best canonical score c and the best alias score a
FuzzyCascade(self, skill, x, c) ==
    LET th == self.thresholds
        bestCanonical == self.canonical_skills[FirstAt(x, LowerNames(self.canonical_skills), c)]
        keys == DictKeys(self.alias_map)
        a == IF keys = <<>> THEN RInt(0) ELSE BestOver(x, keys)
    IN  IF RGe(c, RInt(th.high_confidence))
        THEN NormReturn(bestCanonical, "high", c)
        ELSE IF keys # <<>> /\ RGt(a, c) /\ RGe(a, RInt(th.medium_confidence))
        THEN NormReturn(DictGet(self.alias_map, keys[FirstAt(x, keys, a)]),
                        NormScoreToConfidence(th, a), a)
        ELSE IF RGe(c, RInt(th.low_confidence))
        THEN NormReturn(bestCanonical, NormScoreToConfidence(th, c), c)
        ELSE NormReturn(skill, "no_match", RInt(0))

\* TRUE after normalize(x) went through its fuzzy steps on a loaded taxonomy
FuzzyStepsTaken ==
    /\ normOut # None
    /\ normalizer.canonical_skills # <<>>
    /\ NoExactHit(normalizer, Strip(Lower(normIn)))

\* C18: when x is neither an exact alias nor an exact canonical name, with c
\* the best fuzzy score over canonical names and a the best over alias keys,
\* normalize(x) returns the best canonical with confidence high if
\* c >= high_confidence; otherwise the canonical of the best alias if a > c and
\* a >= medium_confidence; otherwise the best canonical if c >= low_confidence;
\* otherwise (x, "no_match", 0); the label is the tier of the returned score.
FuzzyCascadeFollowed ==
    FuzzyStepsTaken =>
        /\ normOut = FuzzyCascade(normalizer, normIn, Strip(Lower(normIn)),
                                  BestOver(Strip(Lower(normIn)),
                                           LowerNames(normalizer.canonical_skills)))
        /\ normOut.conf = NormScoreToConfidence(normalizer.thresholds, normOut.score)

\* a misspelt alias wins over every canonical name: "amazn" -> AWS
FuzzyAliasPreferred ==
    /\ FuzzyStepsTaken
    /\ normIn = <<"a", "m", "a", "z", "n">>
    /\ normOut = NormReturn(sAWS, "high", Rat(1000, 11))

\* an alias scores higher than the canonical names but below medium_confidence
WeakAliasNotPreferred ==
    /\ FuzzyStepsTaken
    /\ normalizer.alias_map # <<>>
    /\ RGt(BestOver(Strip(Lower(normIn)), DictKeys(normalizer.alias_map)),
           BestOver(Strip(Lower(normIn)), LowerNames(normalizer.canonical_skills)))
    /\ normOut.conf \in {"low", "no_match"}

-----------------------------------------------------------------------------
(* Spec: evaluate(resume, job_description) on a freshly started process *)

Init ==
    /\ \E env \in EvalEnvironments :
           skillsYaml = env[1] /\ configYaml = env[2]
    /\ normalizer = None
    /\ engine = None
    /\ NormIdle
    /\ EvalIdle
    /\ ParsersIdle

\* rules.evaluate(resume, job_description): get_engine().evaluate(...), which
\* reaches get_normalizer() in match_skills
EvaluateCall(input) ==
    /\ engine' = GetEngine
    /\ normalizer' = GetNormalizer
    /\ evalIn' = input
    /\ evalOut' = Evaluate(GetEngine, GetNormalizer, input.resume, input.job_description)
    /\ skillResults' = MatchSkills(GetNormalizer, input.resume.skills,
                                   input.job_description.required_skills,
                                   input.job_description.optional_skills,
                                   GetEngine.thresholds.full_match,
                                   GetEngine.thresholds.partial_match)
    /\ argsAfter' = ArgumentsAfterEvaluate(input)
    /\ UNCHANGED <<skillsYaml, configYaml, normVars, segVars, expVars, docVars, thrVars, apiVars>>

\* the first evaluate() call of a process, on any of the explored inputs
EvaluateFirst ==
    /\ evalIn = None
    /\ \E input \in EvalInputs : EvaluateCall(input)
    /\ UNCHANGED evalLog

Next == EvaluateFirst

Spec == Init /\ [][Next]_vars

-----------------------------------------------------------------------------
(* Properties of evaluate, checked under Spec *)

\* the notes of one kind in the penalties_applied of a result
NotesOf(res, kind) ==
    SelectSeq(res.score_breakdown.penalties_applied, LAMBDA note : note.kind = kind)

\* the score a result had before _bound_score, recomputed from its breakdown
ResultRawScore(res) ==
    LET b == res.score_breakdown
        weighted == WeightedSum([weights |-> b.weights_applied],
                                b.required_skills_score, b.optional_skills_score,
                                b.experience_depth_score, b.education_match_score)
        missing == NotesOf(res, "missing_required")
        capped == NotesOf(res, "capped")
    IN  IF capped # <<>> THEN RInt(capped[1].points)
        ELSE IF missing # <<>> THEN RAdd(weighted, RInt(missing[1].points))
        ELSE weighted

\* round(clamp(x, lo, hi)) written out by cases
ClampRound(x, lo, hi) ==
    IF RLt(x, RInt(lo)) THEN lo
    ELSE IF RGt(x, RInt(hi)) THEN hi
    ELSE RoundHalfEven(x)

ProbeScores ==
    {RInt(150), RInt(-50), Rat(151, 2), Rat(1, 2), Rat(3, 2), Rat(201, 2), Rat(-1, 2)}

\* C1: with score_bounds 0..100 every returned job_fit_score is an integer in
\* 0..100 and equals the clamped, rounded pre-bound score; no result is
\* rejected for being out of range; _bound_score maps 150.0 to 100, -50.0 to 0
\* and 75.5 to 76.
ScoreBounded ==
    /\ evalOut.st = "raise" => evalOut.exc # "ValidationError"
    /\ evalOut.st = "ok" =>
          /\ evalOut.job_fit_score \in 0..100
          /\ evalOut.job_fit_score = ClampRound(ResultRawScore(evalOut), 0, 100)
          /\ \A x \in ProbeScores :
                BoundScore(engine, x) = ClampRound(x, engine.bounds.min, engine.bounds.max)
          /\ BoundScore(engine, RInt(150)) = 100
          /\ BoundScore(engine, RInt(-50)) = 0
          /\ BoundScore(engine, Rat(151, 2)) = 76

\* a result whose pre-bound score was negative and came back as 0
ScoreClampedAtMin ==
    /\ evalOut.st = "ok"
    /\ RLt(ResultRawScore(evalOut), RInt(0))
    /\ evalOut.job_fit_score = 0

\* a result whose pre-bound score exceeded 100 and came back as 100
ScoreClampedAtMax ==
    /\ evalOut.st = "ok"
    /\ RGt(ResultRawScore(evalOut), RInt(100))
    /\ evalOut.job_fit_score = 100

\* TRUE when a result's required-skill ratio is below the configured minimum
ResultBelowMinimum(res) ==
    /\ res.explanation.required_total > 0
    /\ RLt(Rat(res.explanation.required_matched, res.explanation.required_total),
           engine.enforcement.minimum_required_matched)

\* C2: when required_total > 0 and required_matched / required_total is below
\* minimum_required_matched, the returned job_fit_score is at most
\* below_minimum_cap, whatever the other three component scores are.
FloorEnforced ==
    (evalOut.st = "ok" /\ ResultBelowMinimum(evalOut)) =>
        evalOut.job_fit_score <= engine.enforcement.below_minimum_cap

\* 0 of 4 required skills matched, the other components at 100, cap applied
FloorCapApplied ==
    /\ evalOut.st = "ok"
    /\ evalOut.explanation.required_matched = 0
    /\ evalOut.explanation.required_total = 4
    /\ evalOut.score_breakdown.optional_skills_score = RInt(100)
    /\ evalOut.score_breakdown.experience_depth_score = RInt(100)
    /\ evalOut.score_breakdown.education_match_score = RInt(100)
    /\ NotesOf(evalOut, "capped") # <<>>
    /\ evalOut.job_fit_score = engine.enforcement.below_minimum_cap

\* C3: a returned result holds exactly one SkillMatch per JD skill, the
\* required ones then the optional ones, whatever the resume skills and the
\* match outcomes are.
OneMatchPerJDSkill ==
    evalOut.st = "ok" =>
        LET req == evalIn.job_description.required_skills
            opt == evalIn.job_description.optional_skills
        IN  /\ Len(evalOut.skill_matches) = Len(req) + Len(opt)
            /\ \A i \in 1..Len(req) : evalOut.skill_matches[i].skill_name = req[i]
            /\ \A i \in 1..Len(opt) :
                  evalOut.skill_matches[Len(req) + i].skill_name = opt[i]

\* one resume skill against five JD skills, some matched and some missing
MatchesForEveryOutcome ==
    /\ evalOut.st = "ok"
    /\ Len(evalIn.resume.skills) = 1
    /\ Len(evalOut.skill_matches) = 5
    /\ \E i \in 1..5 : evalOut.skill_matches[i].match_type = "matched"
    /\ \E i \in 1..5 : /\ evalOut.skill_matches[i].match_type = "missing"
                         /\ evalOut.skill_matches[i].jd_priority = "required"
    /\ evalOut.missing_count = 4

\* more resume skills than JD skills, and a missing optional skill
MissingOptionalEmitted ==
    /\ evalOut.st = "ok"
    /\ Len(evalIn.resume.skills) > Len(evalOut.skill_matches)
    /\ \E i \in 1..Len(evalOut.skill_matches) :
          /\ evalOut.skill_matches[i].match_type = "missing"
          /\ evalOut.skill_matches[i].jd_priority = "optional"

\* C5: with no required skills required_skills_score is 100.0 and the floor
\* ratio is not computed (no cap is applied); with no optional skills
\* optional_skills_score is 100.0; evaluate never raises ZeroDivisionError.
NoRequirementNeutral ==
    /\ evalOut.st = "raise" => evalOut.exc # "ZeroDivisionError"
    /\ evalOut.st = "ok" =>
          /\ evalIn.job_description.required_skills = <<>> =>
                /\ evalOut.score_breakdown.required_skills_score = RInt(100)
                /\ NotesOf(evalOut, "capped") = <<>>
                /\ ~ BelowRequiredMinimum(engine, [required_matched |-> 0,
                                                   required_total |-> 0])
          /\ evalIn.job_description.optional_skills = <<>> =>
                evalOut.score_breakdown.optional_skills_score = RInt(100)

\* a JD with neither required nor optional skills, evaluated for a resume with skills
NoRequirementsEvaluated ==
    /\ evalOut.st = "ok"
    /\ evalIn.job_description.required_skills = <<>>
    /\ evalIn.job_description.optional_skills = <<>>
    /\ evalIn.resume.skills # <<>>

\* the scenario of C6: skills {Python, React, AWS}, some experience and education,
\* required [Python, React], optional [AWS, Docker], default weights
IsEndToEndScenario ==
    /\ evalIn # None
    /\ {evalIn.resume.skills[i].canonical_name : i \in 1..Len(evalIn.resume.skills)}
          = {sPython, sReact, sAWS}
    /\ Len(evalIn.resume.skills) = 3
    /\ evalIn.resume.experience # <<>>
    /\ evalIn.resume.education # <<>>
    /\ evalIn.job_description.required_skills = <<sPython, sReact>>
    /\ evalIn.job_description.optional_skills = <<sAWS, sDocker>>
    /\ engine.weights = [required_skills |-> Rat(4, 10), optional_skills |-> Rat(2, 10),
                         experience_depth |-> Rat(25, 100), education_match |-> Rat(15, 100)]

\* C6: in the scenario evaluate yields matched_count >= 2, missing_count == 1
\* (Docker, the only missing SkillMatch) and job_fit_score >= 60.
EndToEndScenario ==
    (IsEndToEndScenario /\ evalOut.st = "ok") =>
        /\ evalOut.matched_count >= 2
        /\ evalOut.missing_count = 1
        /\ \A i \in 1..Len(evalOut.skill_matches) :
              evalOut.skill_matches[i].match_type = "missing"
                  <=> evalOut.skill_matches[i].skill_name = sDocker
        /\ evalOut.job_fit_score >= 60

\* the scenario evaluated
EndToEndEvaluated ==
    /\ IsEndToEndScenario
    /\ evalOut.st = "ok"
    /\ evalOut.matched_count = 3

\* the SkillMatch records of a result with the given priority and match type
MatchesOf(res, priority, match_type) ==
    SelectSeq(res.skill_matches,
              LAMBDA sm : sm.jd_priority = priority /\ sm.match_type = match_type)

\* the job_fit_score a result must carry when pen is added to its weighted sum
ScoreWithPenalty(res, pen) ==
    LET b == res.score_breakdown
        weighted == WeightedSum(engine, b.required_skills_score, b.optional_skills_score,
                                b.experience_depth_score, b.education_match_score)
        after == RAdd(weighted, RInt(pen))
        cap == RInt(engine.enforcement.below_minimum_cap)
    IN  ClampRound(IF ResultBelowMinimum(res) /\ RGt(after, cap) THEN cap ELSE after,
                   engine.bounds.min, engine.bounds.max)

\* C12: with k >= 1 required skills missing, evaluate adds
\* max(k * missing_required_skill, max_penalty) to the weighted sum, which is
\* never more negative than max_penalty; with none missing no penalty is
\* applied and penalties_applied has no missing-skill entry.
PenaltyIsFloored ==
    evalOut.st = "ok" =>
        LET k == Len(MatchesOf(evalOut, "required", "missing"))
            per == engine.penalties.missing_required_skill
            floor == engine.penalties.max_penalty
            notes == NotesOf(evalOut, "missing_required")
        IN  /\ k >= 1 =>
                /\ Len(notes) = 1
                /\ notes[1].count = k
                /\ notes[1].points = (IF k * per >= floor THEN k * per ELSE floor)
                /\ notes[1].points >= floor
                /\ evalOut.job_fit_score = ScoreWithPenalty(evalOut, notes[1].points)
            /\ k = 0 =>
                /\ notes = <<>>
                /\ evalOut.job_fit_score = ScoreWithPenalty(evalOut, 0)

\* enough required skills missing for k * missing_required_skill to pass the
\* floor: max_penalty was applied, and the score was not capped afterwards
PenaltyFloorReached ==
    /\ evalOut.st = "ok"
    /\ Len(MatchesOf(evalOut, "required", "missing")) * engine.penalties.missing_required_skill
           < engine.penalties.max_penalty
    /\ NotesOf(evalOut, "missing_required")[1].points = engine.penalties.max_penalty
    /\ NotesOf(evalOut, "capped") = <<>>

\* a result with required skills and none of them missing
NoPenaltyApplied ==
    /\ evalOut.st = "ok"
    /\ evalOut.explanation.required_total > 0
    /\ MatchesOf(evalOut, "required", "missing") = <<>>
    /\ NotesOf(evalOut, "missing_required") = <<>>

\* the skill names of the SkillMatch records with a priority and a match type
NamesOf(matches, priority, match_type) ==
    LET sel == SelectSeq(matches,
                   LAMBDA sm : sm.jd_priority = priority /\ sm.match_type = match_type)
    IN  [i \in 1..Len(sel) |-> sel[i].skill_name]

\* C14: in the result of match_skills every REQUIRED SkillMatch precedes every
\* OPTIONAL one, each group in JD list order; required_matched counts only
\* full matches of required skills and optional_matched only those of optional
\* skills; the matched_*, partial_*, missing_* lists hold no skill taken from
\* the other JD list, also when one skill is named in both lists.
RequiredBeforeOptional ==
    (skillResults # None /\ skillResults.st = "ok") =>
        LET req == evalIn.job_description.required_skills
            opt == evalIn.job_description.optional_skills
            matches == skillResults.matches
        IN  /\ Len(matches) = Len(req) + Len(opt)
            /\ \A i \in 1..Len(req) :
                   matches[i].jd_priority = "required" /\ matches[i].skill_name = req[i]
            /\ \A i \in 1..Len(opt) :
                   /\ matches[Len(req) + i].jd_priority = "optional"
                   /\ matches[Len(req) + i].skill_name = opt[i]
            /\ skillResults.stats.required_matched
                   = Cardinality({i \in 1..Len(req) : matches[i].match_type = "matched"})
            /\ skillResults.stats.optional_matched
                   = Cardinality({i \in 1..Len(opt) :
                                     matches[Len(req) + i].match_type = "matched"})
            /\ skillResults.matched_required = NamesOf(matches, "required", "matched")
            /\ skillResults.partial_required = NamesOf(matches, "required", "partial")
            /\ skillResults.missing_required = NamesOf(matches, "required", "missing")
            /\ skillResults.matched_optional = NamesOf(matches, "optional", "matched")
            /\ skillResults.partial_optional = NamesOf(matches, "optional", "partial")
            /\ skillResults.missing_optional = NamesOf(matches, "optional", "missing")

\* one skill named in both JD lists and matched in both: counted once on each side
SameSkillInBothLists ==
    /\ skillResults # None /\ skillResults.st = "ok"
    /\ \E i \in 1..Len(evalIn.job_description.required_skills) :
          \E j \in 1..Len(evalIn.job_description.optional_skills) :
             evalIn.job_description.required_skills[i]
                 = evalIn.job_description.optional_skills[j]
    /\ Len(evalIn.job_description.required_skills) = 2
    /\ skillResults.stats.required_matched = 1
    /\ skillResults.stats.optional_matched = 1
    /\ skillResults.missing_required # <<>>

\* s of one JD skill: 100 on a key hit, else the highest fuzzy score over the
\* keys of the resume skill map, 0 when the map is empty
BestScore(m, jd_lower) ==
    IF DictHas(m, jd_lower) THEN RInt(100)
    ELSE IF m = <<>> THEN RInt(0)
    ELSE LET scores == {FuzzRatio(jd_lower, m[i].k) : i \in 1..Len(m)}
         IN  CHOOSE s \in scores : \A u \in scores : RGe(s, u)

\* the source_text of the resume skills that attain s
EvidenceAt(m, jd_lower, s) ==
    IF DictHas(m, jd_lower) THEN {DictGet(m, jd_lower).source_text}
    ELSE {m[i].v.source_text : i \in {j \in 1..Len(m) : FuzzRatio(jd_lower, m[j].k) = s}}

\* the classification of one SkillMatch against s and the two thresholds
ClassifiedBy(sm, m, s, full_threshold, partial_threshold) ==
    /\ sm.match_type = "matched" <=> RGe(s, RInt(full_threshold))
    /\ sm.match_type = "partial" <=>
           (RGe(s, RInt(partial_threshold)) /\ RLt(s, RInt(full_threshold)))
    /\ sm.match_type = "missing" <=>
           ~(RGe(s, RInt(full_threshold)) \/ RGe(s, RInt(partial_threshold)))
    /\ sm.match_type = "missing" =>
           (sm.match_score = RInt(0) /\ sm.confidence = "low" /\ sm.evidence = NoneStr)
    /\ sm.match_type \in {"matched", "partial"} =>
           /\ sm.match_score = RMul(s, Rat(1, 100))
           /\ sm.evidence \in EvidenceAt(m, Lower(sm.canonical_name), s)

\* C17: each JD skill is classified by s = 100 if its lower-cased canonical
\* name is a key of the resume skill map, else the maximum fuzzy score over
\* the resume canonical names (0 with no skills): matched iff s >= full,
\* partial iff partial <= s < full, missing otherwise; a missing SkillMatch has
\* match_score 0, confidence low and no evidence; a matched or partial one has
\* match_score s/100 and the source_text of the resume skill that attained s.
SkillsClassifiedByBestScore ==
    evalOut.st = "ok" =>
        LET m == ResumeSkillMap(normalizer, evalIn.resume.skills).map
        IN  \A i \in 1..Len(evalOut.skill_matches) :
                ClassifiedBy(evalOut.skill_matches[i], m,
                             BestScore(m, Lower(evalOut.skill_matches[i].canonical_name)),
                             engine.thresholds.full_match, engine.thresholds.partial_match)

\* a resume of several skills: one JD skill partial by its fuzzy score, with
\* evidence, and one missing although some resume skill scored above 0
FuzzyPartialAndMissing ==
    /\ evalOut.st = "ok"
    /\ Len(evalIn.resume.skills) >= 2
    /\ \E i \in 1..Len(evalOut.skill_matches) :
           /\ evalOut.skill_matches[i].match_type = "partial"
           /\ evalOut.skill_matches[i].evidence # NoneStr
           /\ RLt(evalOut.skill_matches[i].match_score, RInt(1))
    /\ \E i \in 1..Len(evalOut.skill_matches) :
           /\ evalOut.skill_matches[i].match_type = "missing"
           /\ RGt(BestScore(ResumeSkillMap(normalizer, evalIn.resume.skills).map,
                            Lower(evalOut.skill_matches[i].canonical_name)), RInt(0))

\* min(100, (100 * full + 50 * partial) / total) over the JD skills of one priority
SkillsScoreFormula(res, priority, total) ==
    RMin(RInt(100),
         Rat(100 * Len(MatchesOf(res, priority, "matched"))
                 + 50 * Len(MatchesOf(res, priority, "partial")),
             total))

\* C16: for a JD with total_required > 0, required_skills_score ==
\* min(100, (100 * full_matches + 50 * partial_matches) / total_required) over
\* the required JD skills classified matched and partial; optional_skills_score
\* is the same formula over the optional skills; both lie in [0, 100].
SkillScoreFormulas ==
    evalOut.st = "ok" =>
        LET b == evalOut.score_breakdown
            nreq == Len(evalIn.job_description.required_skills)
            nopt == Len(evalIn.job_description.optional_skills)
        IN  /\ nreq > 0 =>
                  b.required_skills_score = SkillsScoreFormula(evalOut, "required", nreq)
            /\ nopt > 0 =>
                  b.optional_skills_score = SkillsScoreFormula(evalOut, "optional", nopt)
            /\ InPercentRange(b.required_skills_score)
            /\ InPercentRange(b.optional_skills_score)

\* one required skill matched, one partial: 75; the optional one partial: 50
MixedSkillScores ==
    /\ evalOut.st = "ok"
    /\ Len(MatchesOf(evalOut, "required", "matched")) = 1
    /\ Len(MatchesOf(evalOut, "required", "partial")) = 1
    /\ Len(evalIn.job_description.required_skills) = 2
    /\ evalOut.score_breakdown.required_skills_score = RInt(75)
    /\ Len(MatchesOf(evalOut, "optional", "partial")) = 1
    /\ evalOut.score_breakdown.optional_skills_score = RInt(50)

\* the text of one experience entry that the signal patterns are searched in
EntryText(exp) == Lower(exp.description) \o Lower(Join(exp.responsibilities, <<" ">>))

\* the patterns of a configured category that occur in the entry
PatternsHit(signals, category, exp) ==
    IF category \notin signals.present THEN {}
    ELSE {i \in 1..Len(signals[category].patterns) :
             Contains(Lower(signals[category].patterns[i]), EntryText(exp))}

\* points * weight * (number of entries in which some pattern of the category occurs)
CategoryTotal(signals, category, points, experience) ==
    IF category \notin signals.present THEN RInt(0)
    ELSE RMul(RInt(points * Cardinality({e \in 1..Len(experience) :
                                           PatternsHit(signals, category, experience[e]) # {}})),
              signals[category].weight)

\* C20: experience_depth_score is 50 when the resume has no experience entries;
\* otherwise min(100, 50 + sum over entries of 10*leadership.weight,
\* 10*scale.weight and 8*technical_depth.weight for each category with a
\* matching pattern): a category counts once per entry however many of its
\* patterns match, categories compound within an entry and across entries.
ExperienceDepthFormula ==
    evalOut.st = "ok" =>
        LET experience == evalIn.resume.experience
            signals == engine.config.experience_signals
        IN  evalOut.score_breakdown.experience_depth_score =
                IF experience = <<>> THEN RInt(50)
                ELSE RMin(RInt(100),
                          RAdd(RAdd(RAdd(RInt(50),
                                         CategoryTotal(signals, "leadership", 10, experience)),
                                    CategoryTotal(signals, "scale", 10, experience)),
                               CategoryTotal(signals, "technical_depth", 8, experience)))

\* two entries with leadership the only configured category, the second
\* matching two leadership patterns: 50 + 10 + 10
LeadershipOncePerEntry ==
    /\ evalOut.st = "ok"
    /\ Len(evalIn.resume.experience) = 2
    /\ engine.config.experience_signals.present = {"leadership"}
    /\ Cardinality(PatternsHit(engine.config.experience_signals, "leadership",
                               evalIn.resume.experience[2])) = 2
    /\ evalOut.score_breakdown.experience_depth_score = RInt(70)

\* three categories in each of two entries: 50 + 26 + 26 is cut to 100
ExperienceDepthCapped ==
    /\ evalOut.st = "ok"
    /\ Len(evalIn.resume.experience) = 2
    /\ engine.config.experience_signals.present = {"leadership", "scale", "technical_depth"}
    /\ evalOut.score_breakdown.experience_depth_score = RInt(100)

\* the configured scores of the entries' degrees: per entry, that of the first
\* configured keyword its lower-cased degree contains
DegreeScores(degree_levels, education) ==
    {degree_levels[k].v : k \in
        {k \in 1..Len(degree_levels) :
            \E e \in 1..Len(education) :
                /\ Contains(degree_levels[k].k, Lower(education[e].degree))
                /\ \A j \in 1..(k - 1) :
                       ~ Contains(degree_levels[j].k, Lower(education[e].degree))}}

\* the largest element of a non-empty set of integers
MaxOf(S) == CHOOSE x \in S : \A y \in S : y <= x

\* a text is given: neither None nor ""
Given(text) == text # NoneStr /\ text # <<>>

\* some word of some entry's field_of_study is one of the words of the requirement
SharesWord(education, requirement) ==
    /\ Given(requirement)
    /\ \E e \in 1..Len(education) :
          /\ Given(education[e].field_of_study)
          /\ \E i \in 1..Len(Split(Lower(education[e].field_of_study))) :
                 \E j \in 1..Len(Split(Lower(requirement))) :
                     Split(Lower(education[e].field_of_study))[i] = Split(Lower(requirement))[j]

\* some word of some entry's field_of_study occurs anywhere in the requirement
WordOccursIn(education, requirement) ==
    /\ Given(requirement)
    /\ \E e \in 1..Len(education) :
          /\ Given(education[e].field_of_study)
          /\ \E i \in 1..Len(Split(Lower(education[e].field_of_study))) :
                 Contains(Split(Lower(education[e].field_of_study))[i], Lower(requirement))

\* C21 as stated: education_match_score is 50 when the resume has no education
\* entries; otherwise min(100, M + B), M the maximum over entries of the
\* configured score of the first configured keyword contained in the entry's
\* degree, B field_match_bonus added once when the JD education requirement
\* shares a word with some entry's field_of_study. Stated for the resumes in
\* which some entry's degree holds a configured keyword.
EducationScoreAsStated ==
    evalOut.st = "ok" =>
        LET education == evalIn.resume.education
            cfg == engine.config.education
            scores == DegreeScores(cfg.degree_levels, education)
        IN  /\ education = <<>> => evalOut.score_breakdown.education_match_score = RInt(50)
            /\ scores # {} =>
                  evalOut.score_breakdown.education_match_score =
                      RMin(RInt(100),
                           RInt(MaxOf(scores)
                                + (IF SharesWord(education, evalIn.job_description.education_requirements)
                                   THEN cfg.field_match_bonus ELSE 0)))

\* C21, amended: education_match_score is 50 when the resume has no education
\* entries; otherwise min(100, max(50, M) + B): the degree score never counts
\* below the baseline of 50, also when no entry's degree holds a configured
\* keyword, and B is added once when some word of some entry's field_of_study
\* occurs anywhere in the lower-cased JD education requirement.
EducationScoreFormula ==
    evalOut.st = "ok" =>
        LET education == evalIn.resume.education
            cfg == engine.config.education
            scores == DegreeScores(cfg.degree_levels, education) \cup {50}
        IN  evalOut.score_breakdown.education_match_score =
                IF education = <<>> THEN RInt(50)
                ELSE RMin(RInt(100),
                          RInt(MaxOf(scores)
                               + (IF WordOccursIn(education, evalIn.job_description.education_requirements)
                                  THEN cfg.field_match_bonus ELSE 0)))

\* a diploma configured at 40 counts 50, and "it" inside "quantitative" earns the bonus
BaselineAndSubstringBonus ==
    /\ evalOut.st = "ok"
    /\ evalIn.resume.education # <<>>
    /\ DegreeScores(engine.config.education.degree_levels, evalIn.resume.education) = {40}
    /\ ~ SharesWord(evalIn.resume.education, evalIn.job_description.education_requirements)
    /\ evalOut.score_breakdown.education_match_score = RInt(60)

\* the number of SkillMatch records of one match_type
CountOfType(res, match_type) ==
    Cardinality({i \in 1..Len(res.skill_matches) : res.skill_matches[i].match_type = match_type})

\* C25: in every EvaluationResult the three counts partition the match list:
\* matched_count + partial_count + missing_count == len(skill_matches) and each
\* count equals the number of SkillMatch records of that match_type; likewise
\* required_matched + len(partial_required) + len(missing_required) ==
\* required_total, and the same for optional.
CountsPartitionMatches ==
    evalOut.st = "ok" =>
        /\ evalOut.matched_count + evalOut.partial_count + evalOut.missing_count
               = Len(evalOut.skill_matches)
        /\ evalOut.matched_count = CountOfType(evalOut, "matched")
        /\ evalOut.partial_count = CountOfType(evalOut, "partial")
        /\ evalOut.missing_count = CountOfType(evalOut, "missing")
        /\ skillResults.stats.required_matched + Len(skillResults.partial_required)
               + Len(skillResults.missing_required) = skillResults.stats.required_total
        /\ skillResults.stats.optional_matched + Len(skillResults.partial_optional)
               + Len(skillResults.missing_optional) = skillResults.stats.optional_total
        /\ skillResults.stats.required_total = Len(evalIn.job_description.required_skills)
        /\ skillResults.stats.optional_total = Len(evalIn.job_description.optional_skills)
        /\ skillResults.stats.required_matched = Len(MatchesOf(evalOut, "required", "matched"))
        /\ skillResults.stats.optional_matched = Len(MatchesOf(evalOut, "optional", "matched"))

\* all three counts positive in one result
AllThreeCountsPositive ==
    /\ evalOut.st = "ok"
    /\ evalOut.matched_count > 0 /\ evalOut.partial_count > 0 /\ evalOut.missing_count > 0
    /\ Len(skillResults.partial_required) > 0

\* n is x rounded to an integer: the nearest one, the even one of two equally near
RoundedTo(n, x) ==
    /\ 2 * Abs(n * x.d - x.n) <= x.d
    /\ 2 * Abs(n * x.d - x.n) = x.d => n % 2 = 0

\* C27: the numbers stated in EvaluationResult.explanation agree with the
\* structured result: the score equals job_fit_score, the required (optional)
\* "matched of total" figures equal the number of matched REQUIRED (OPTIONAL)
\* SkillMatch records and the number of required (optional) JD skills, and the
\* four percentages equal the score_breakdown components rounded to integers.
ExplanationAgrees ==
    evalOut.st = "ok" =>
        LET e == evalOut.explanation
            b == evalOut.score_breakdown
        IN  /\ e.score = evalOut.job_fit_score
            /\ e.required_matched = Len(MatchesOf(evalOut, "required", "matched"))
            /\ e.required_total = Len(evalIn.job_description.required_skills)
            /\ e.optional_matched = Len(MatchesOf(evalOut, "optional", "matched"))
            /\ e.optional_total = Len(evalIn.job_description.optional_skills)
            /\ RoundedTo(e.required_pct, b.required_skills_score)
            /\ RoundedTo(e.optional_pct, b.optional_skills_score)
            /\ RoundedTo(e.experience_pct, b.experience_depth_score)
            /\ RoundedTo(e.education_pct, b.education_match_score)

\* a required score that is no integer, stated rounded, beside matched optional skills
ExplanationRounds ==
    /\ evalOut.st = "ok"
    /\ evalOut.score_breakdown.required_skills_score.d # 1
    /\ evalOut.explanation.required_matched > 0
    /\ evalOut.explanation.optional_matched > 0
    /\ evalOut.explanation.required_matched < evalOut.matched_count

\* the criteria of the HIGH confidence level, on the inputs of the call
HighCriteria(input) ==
    /\ Len(input.resume.experience) >= 1
    /\ Len(input.resume.skills) > 5
    /\ Len(input.job_description.required_skills) >= 1

\* C13: confidence_level is LOW whenever the resume has fewer than 3 skills,
\* HIGH exactly when the resume has at least 1 experience entry, more than 5
\* skills and the JD at least 1 required skill, and MEDIUM in every other case.
ConfidenceLevels ==
    evalOut.st = "ok" =>
        /\ Len(evalIn.resume.skills) < 3 => evalOut.confidence_level = "low"
        /\ evalOut.confidence_level = "high" <=> HighCriteria(evalIn)
        /\ (~ HighCriteria(evalIn) /\ Len(evalIn.resume.skills) >= 3) =>
               evalOut.confidence_level = "medium"

\* fewer than 3 skills beside an experience entry and a required skill: LOW
ConfidenceLowOverrides ==
    /\ evalOut.st = "ok"
    /\ Len(evalIn.resume.skills) < 3
    /\ Len(evalIn.resume.experience) >= 1
    /\ Len(evalIn.job_description.required_skills) >= 1
    /\ evalOut.confidence_level = "low"

\* six skills, experience and a required skill: HIGH
ConfidenceHighReached ==
    /\ evalOut.st = "ok" /\ HighCriteria(evalIn) /\ evalOut.confidence_level = "high"

\* five skills beside experience and a required skill: still MEDIUM
ConfidenceFiveSkillsMedium ==
    /\ evalOut.st = "ok" /\ Len(evalIn.resume.skills) = 5
    /\ Len(evalIn.resume.experience) >= 1
    /\ evalOut.confidence_level = "medium"

\* six skills without experience: MEDIUM
ConfidenceMediumReached ==
    /\ evalOut.st = "ok" /\ Len(evalIn.resume.skills) > 5 /\ evalIn.resume.experience = <<>>
    /\ evalOut.confidence_level = "medium"

-----------------------------------------------------------------------------
(* SpecDet: a process serving a sequence of evaluate() calls *)

\* the inputs of the calls of a determinism run
DetInputs ==
    {MkInput(MockResumeSkills, <<sPython, sReact>>, <<sAWS, sDocker>>, MockBackground),
     MkInput(<<MkSkill(sGolang, sGolang)>>, <<sGolan, sGola>>, <<sGola>>, PlainBackground),
     MkInput(<<MkSkill(sPython, sPython)>>, FourRequired, <<sPython>>, StrongBackground),
     MkInput(<<>>, <<>>, <<>>, NoBackground)}

DetInit == Init

\* one more evaluate() call of the process, recorded with its result
EvaluateLogged ==
    /\ Len(evalLog) < MaxCalls
    /\ \E input \in DetInputs :
          /\ EvaluateCall(input)
          /\ evalLog' = Append(evalLog, [input |-> input, result |-> evalOut'])

DetNext == EvaluateLogged

SpecDet == DetInit /\ [][DetNext]_vars

-----------------------------------------------------------------------------
(* parsers/section_detector.py : matching of regular expressions.  A match is
   followed as the set of positions it can reach in the text. *)

Positions(text) == 1..(Len(text) + 1)

\* X* on a character class X, started at any position of S
StarFrom(S, cls, text) ==
    {q \in Positions(text) : \E p \in S : p <= q /\ \A k \in p..(q - 1) : text[k] \in cls}

\* X+ on a character class X
PlusFrom(S, cls, text) ==
    {q \in Positions(text) : \E p \in S : p < q /\ \A k \in p..(q - 1) : text[k] \in cls}

\* one character of the class X
OneFrom(S, cls, text) ==
    {p + 1 : p \in {p \in S : p <= Len(text) /\ text[p] \in cls}}

\* a literal string
LitFrom(S, lit, text) ==
    {p + Len(lit) : p \in {p \in S : /\ p + Len(lit) - 1 <= Len(text)
                                     /\ \A k \in 1..Len(lit) : text[p + k - 1] = lit[k]}}

\* the pieces the section patterns are built from
Lit(s) == [k |-> "lit", s |-> s, alts |-> <<>>]
Ws == [k |-> "ws", s |-> <<>>, alts |-> <<>>]
Opt(alts) == [k |-> "opt", s |-> <<>>, alts |-> alts]
Alt(alts) == [k |-> "alt", s |-> <<>>, alts |-> alts]

RECURSIVE MatchFrom(_, _, _, _)
\* the positions reached from S by the pieces i.. of a pattern
MatchFrom(pat, i, S, text) ==
    IF i > Len(pat) \/ S = {} THEN S
    ELSE LET e == pat[i]
             branches == UNION {MatchFrom(e.alts[a], 1, S, text) : a \in 1..Len(e.alts)}
             after == IF e.k = "lit" THEN LitFrom(S, e.s, text)
                      ELSE IF e.k = "ws" THEN StarFrom(S, Space, text)
                      ELSE IF e.k = "opt" THEN S \cup branches
                      ELSE branches
         IN  MatchFrom(pat, i + 1, after, text)

\* SECTION_PATTERNS, in dict order
SECTION_PATTERNS ==
    <<[k |-> "education", v |-> <<
            \* education
            <<Lit(<<"e", "d", "u", "c", "a", "t", "i", "o", "n">>)>>,
            \* academic\s*(background|history|qualifications|profile)?
            <<Lit(<<"a", "c", "a", "d", "e", "m", "i", "c">>), Ws, Opt(<<<<Lit(<<"b", "a", "c", "k", "g", "r", "o", "u", "n", "d">>)>>, <<Lit(<<"h", "i", "s", "t", "o", "r", "y">>)>>, <<Lit(<<"q", "u", "a", "l", "i", "f", "i", "c", "a", "t", "i", "o", "n", "s">>)>>, <<Lit(<<"p", "r", "o", "f", "i", "l", "e">>)>>>>)>>,
            \* degrees?
            <<Lit(<<"d", "e", "g", "r", "e", "e">>), Opt(<<<<Lit(<<"s">>)>>>>)>>,
            \* qualifications?
            <<Lit(<<"q", "u", "a", "l", "i", "f", "i", "c", "a", "t", "i", "o", "n">>), Opt(<<<<Lit(<<"s">>)>>>>)>>,
            \* certifications?\s*(&|and)?\s*education
            <<Lit(<<"c", "e", "r", "t", "i", "f", "i", "c", "a", "t", "i", "o", "n">>), Opt(<<<<Lit(<<"s">>)>>>>), Ws, Opt(<<<<Lit(<<"&">>)>>, <<Lit(<<"a", "n", "d">>)>>>>), Ws, Lit(<<"e", "d", "u", "c", "a", "t", "i", "o", "n">>)>>,
            \* educational\s*background
            <<Lit(<<"e", "d", "u", "c", "a", "t", "i", "o", "n", "a", "l">>), Ws, Lit(<<"b", "a", "c", "k", "g", "r", "o", "u", "n", "d">>)>>,
            \* education\s*(and|&)\s*academic
            <<Lit(<<"e", "d", "u", "c", "a", "t", "i", "o", "n">>), Ws, Alt(<<<<Lit(<<"a", "n", "d">>)>>, <<Lit(<<"&">>)>>>>), Ws, Lit(<<"a", "c", "a", "d", "e", "m", "i", "c">>)>>>>],
         [k |-> "experience", v |-> <<
            \* (work\s*)?experience
            <<Opt(<<<<Lit(<<"w", "o", "r", "k">>), Ws>>>>), Lit(<<"e", "x", "p", "e", "r", "i", "e", "n", "c", "e">>)>>,
            \* employment(\s*history)?
            <<Lit(<<"e", "m", "p", "l", "o", "y", "m", "e", "n", "t">>), Opt(<<<<Ws, Lit(<<"h", "i", "s", "t", "o", "r", "y">>)>>>>)>>,
            \* professional\s*(experience|background|history)
            <<Lit(<<"p", "r", "o", "f", "e", "s", "s", "i", "o", "n", "a", "l">>), Ws, Alt(<<<<Lit(<<"e", "x", "p", "e", "r", "i", "e", "n", "c", "e">>)>>, <<Lit(<<"b", "a", "c", "k", "g", "r", "o", "u", "n", "d">>)>>, <<Lit(<<"h", "i", "s", "t", "o", "r", "y">>)>>>>)>>,
            \* work\s*history
            <<Lit(<<"w", "o", "r", "k">>), Ws, Lit(<<"h", "i", "s", "t", "o", "r", "y">>)>>,
            \* career\s*(history|summary)
            <<Lit(<<"c", "a", "r", "e", "e", "r">>), Ws, Alt(<<<<Lit(<<"h", "i", "s", "t", "o", "r", "y">>)>>, <<Lit(<<"s", "u", "m", "m", "a", "r", "y">>)>>>>)>>,
            \* previous\s*(employment|positions?)
            <<Lit(<<"p", "r", "e", "v", "i", "o", "u", "s">>), Ws, Alt(<<<<Lit(<<"e", "m", "p", "l", "o", "y", "m", "e", "n", "t">>)>>, <<Lit(<<"p", "o", "s", "i", "t", "i", "o", "n">>), Opt(<<<<Lit(<<"s">>)>>>>)>>>>)>>,
            \* positions\s*held
            <<Lit(<<"p", "o", "s", "i", "t", "i", "o", "n", "s">>), Ws, Lit(<<"h", "e", "l", "d">>)>>,
            \* recent\s*work
            <<Lit(<<"r", "e", "c", "e", "n", "t">>), Ws, Lit(<<"w", "o", "r", "k">>)>>>>],
         [k |-> "projects", v |-> <<
            \* projects?
            <<Lit(<<"p", "r", "o", "j", "e", "c", "t">>), Opt(<<<<Lit(<<"s">>)>>>>)>>,
            \* personal\s*projects?
            <<Lit(<<"p", "e", "r", "s", "o", "n", "a", "l">>), Ws, Lit(<<"p", "r", "o", "j", "e", "c", "t">>), Opt(<<<<Lit(<<"s">>)>>>>)>>,
            \* academic\s*projects?
            <<Lit(<<"a", "c", "a", "d", "e", "m", "i", "c">>), Ws, Lit(<<"p", "r", "o", "j", "e", "c", "t">>), Opt(<<<<Lit(<<"s">>)>>>>)>>,
            \* portfolio
            <<Lit(<<"p", "o", "r", "t", "f", "o", "l", "i", "o">>)>>,
            \* key\s*projects?
            <<Lit(<<"k", "e", "y">>), Ws, Lit(<<"p", "r", "o", "j", "e", "c", "t">>), Opt(<<<<Lit(<<"s">>)>>>>)>>>>],
         [k |-> "skills", v |-> <<
            \* skills?
            <<Lit(<<"s", "k", "i", "l", "l">>), Opt(<<<<Lit(<<"s">>)>>>>)>>,
            \* technical\s*skills?
            <<Lit(<<"t", "e", "c", "h", "n", "i", "c", "a", "l">>), Ws, Lit(<<"s", "k", "i", "l", "l">>), Opt(<<<<Lit(<<"s">>)>>>>)>>,
            \* core\s*(competencies|skills?)
            <<Lit(<<"c", "o", "r", "e">>), Ws, Alt(<<<<Lit(<<"c", "o", "m", "p", "e", "t", "e", "n", "c", "i", "e", "s">>)>>, <<Lit(<<"s", "k", "i", "l", "l">>), Opt(<<<<Lit(<<"s">>)>>>>)>>>>)>>,
            \* technologies?
            <<Lit(<<"t", "e", "c", "h", "n", "o", "l", "o", "g", "i", "e">>), Opt(<<<<Lit(<<"s">>)>>>>)>>,
            \* expertise
            <<Lit(<<"e", "x", "p", "e", "r", "t", "i", "s", "e">>)>>,
            \* proficiencies?
            <<Lit(<<"p", "r", "o", "f", "i", "c", "i", "e", "n", "c", "i", "e">>), Opt(<<<<Lit(<<"s">>)>>>>)>>,
            \* competencies
            <<Lit(<<"c", "o", "m", "p", "e", "t", "e", "n", "c", "i", "e", "s">>)>>,
            \* abilities
            <<Lit(<<"a", "b", "i", "l", "i", "t", "i", "e", "s">>)>>>>],
         [k |-> "certifications", v |-> <<
            \* certifications?
            <<Lit(<<"c", "e", "r", "t", "i", "f", "i", "c", "a", "t", "i", "o", "n">>), Opt(<<<<Lit(<<"s">>)>>>>)>>,
            \* certificates?
            <<Lit(<<"c", "e", "r", "t", "i", "f", "i", "c", "a", "t", "e">>), Opt(<<<<Lit(<<"s">>)>>>>)>>,
            \* licenses?\s*(and|&)?\s*certifications?
            <<Lit(<<"l", "i", "c", "e", "n", "s", "e">>), Opt(<<<<Lit(<<"s">>)>>>>), Ws, Opt(<<<<Lit(<<"a", "n", "d">>)>>, <<Lit(<<"&">>)>>>>), Ws, Lit(<<"c", "e", "r", "t", "i", "f", "i", "c", "a", "t", "i", "o", "n">>), Opt(<<<<Lit(<<"s">>)>>>>)>>,
            \* professional\s*certifications?
            <<Lit(<<"p", "r", "o", "f", "e", "s", "s", "i", "o", "n", "a", "l">>), Ws, Lit(<<"c", "e", "r", "t", "i", "f", "i", "c", "a", "t", "i", "o", "n">>), Opt(<<<<Lit(<<"s">>)>>>>)>>,
            \* credentials?
            <<Lit(<<"c", "r", "e", "d", "e", "n", "t", "i", "a", "l">>), Opt(<<<<Lit(<<"s">>)>>>>)>>,
            \* accreditations?
            <<Lit(<<"a", "c", "c", "r", "e", "d", "i", "t", "a", "t", "i", "o", "n">>), Opt(<<<<Lit(<<"s">>)>>>>)>>>>],
         [k |-> "contact", v |-> <<
            \* contact(\s*info(rmation)?)?
            <<Lit(<<"c", "o", "n", "t", "a", "c", "t">>), Opt(<<<<Ws, Lit(<<"i", "n", "f", "o">>), Opt(<<<<Lit(<<"r", "m", "a", "t", "i", "o", "n">>)>>>>)>>>>)>>,
            \* personal\s*(info(rmation)?|details?)
            <<Lit(<<"p", "e", "r", "s", "o", "n", "a", "l">>), Ws, Alt(<<<<Lit(<<"i", "n", "f", "o">>), Opt(<<<<Lit(<<"r", "m", "a", "t", "i", "o", "n">>)>>>>)>>, <<Lit(<<"d", "e", "t", "a", "i", "l">>), Opt(<<<<Lit(<<"s">>)>>>>)>>>>)>>>>],
         [k |-> "summary", v |-> <<
            \* (professional\s*)?summary
            <<Opt(<<<<Lit(<<"p", "r", "o", "f", "e", "s", "s", "i", "o", "n", "a", "l">>), Ws>>>>), Lit(<<"s", "u", "m", "m", "a", "r", "y">>)>>,
            \* (career\s*)?objective
            <<Opt(<<<<Lit(<<"c", "a", "r", "e", "e", "r">>), Ws>>>>), Lit(<<"o", "b", "j", "e", "c", "t", "i", "v", "e">>)>>,
            \* profile
            <<Lit(<<"p", "r", "o", "f", "i", "l", "e">>)>>,
            \* about\s*me
            <<Lit(<<"a", "b", "o", "u", "t">>), Ws, Lit(<<"m", "e">>)>>>>]>>

\* [-<en-dash><em-dash>*=_<><pointers><arrow><bullet>\[\(#]
LeadingDecoration ==
    {"-", cEnDash, cEmDash, "*", "=", "_", "<", ">", cPointerR, cTriangleR, cArrowR,
     cBullet, "[", "(", "#"}

\* [:\-<en-dash><em-dash>._\]\)*=_<><pointers><arrow><bullet>#]
TrailingDecoration ==
    {":", "-", cEnDash, cEmDash, ".", "_", "]", ")", "*", "=", "<", ">", cPointerR,
     cTriangleR, cArrowR, cBullet, "#"}

\* [IVX] under re.IGNORECASE
RomanDigits == {"I", "V", "X", "i", "v", "x"}

\* the positions where a line of the text starts: ^ or just after a newline
LineStarts(text) == {1} \cup {i + 1 : i \in {i \in 1..Len(text) : text[i] = "\n"}}

\* (?:$|\n|[|,]) at position p
HeaderTerminator(text, p) == p = Len(text) + 1 \/ text[p] \in {"\n", "|", ","}

\* the positions where the section pattern may begin: after
\* (?:^|\n)\s*(?:[decoration]+\s*)?(?:\d+[\.)\-]?|[IVX]+\.)?\s*
PatternStarts(text) ==
    LET s1 == StarFrom(LineStarts(text), Space, text)
        s2 == s1 \cup StarFrom(PlusFrom(s1, LeadingDecoration, text), Space, text)
        digits == PlusFrom(s2, Digits, text)
        s3 == s2 \cup digits \cup OneFrom(digits, {".", ")", "-"}, text)
                 \cup LitFrom(PlusFrom(s2, RomanDigits, text), <<".">>, text)
    IN  StarFrom(s3, Space, text)

\* re.search(combined_pattern, text, re.IGNORECASE) for one section pattern,
\* given the positions where the pattern may begin
SearchCombined(pattern, text, starts) ==
    LET s5 == MatchFrom(pattern, 1, starts, text)
        s6 == s5 \cup StarFrom(StarFrom(s5, Space, text), TrailingDecoration, text)
        s7 == StarFrom(s6, Space, text)
    IN  s5 # {} /\ \E p \in s7 : HeaderTerminator(text, p)

\* the header test of one block for one section kind, without the length guard
IsSectionHeaderAnyLength(text, starts, patterns) ==
    \E i \in 1..Len(patterns) : SearchCombined(patterns[i], text, starts)

\* the header test of one block for one section kind: some pattern matches
\* and len(text) < 80
IsSectionHeader(text, starts, patterns) ==
    /\ Len(text) < MaxHeaderLen
    /\ \E i \in 1..Len(patterns) : SearchCombined(patterns[i], text, starts)

\* the block at a (0-based) Python index
BlockAt(text_blocks, idx) == text_blocks[idx + 1]

RECURSIVE StartsOfBlock(_, _, _, _, _)
\* the "for section_type, patterns in SECTION_PATTERNS.items()" loop for one block
StartsOfBlock(text, starts, idx, left, t) ==
    IF t > Len(SECTION_PATTERNS) THEN <<>>
    ELSE (IF IsSectionHeader(text, starts, SECTION_PATTERNS[t].v)
          THEN <<[idx |-> idx, section_type |-> SECTION_PATTERNS[t].k, left |-> left]>>
          ELSE <<>>)
         \o StartsOfBlock(text, starts, idx, left, t + 1)

RECURSIVE SectionStartsFrom(_, _)
SectionStartsFrom(text_blocks, idx) ==
    IF idx >= Len(text_blocks) THEN <<>>
    ELSE LET text == Strip(Lower(BlockAt(text_blocks, idx).text))
             starts == PatternStarts(text)
         IN  StartsOfBlock(text, starts, idx, BlockAt(text_blocks, idx).left, 1)
             \o SectionStartsFrom(text_blocks, idx + 1)

\* section_starts after the scan; it is built in index order, so the stable
\* sort by index leaves it as it is
SectionStarts(text_blocks) == SectionStartsFrom(text_blocks, 0)

\* max(left_positions) + 100
PageWidthEstimate(text_blocks) ==
    LET lefts == {text_blocks[i].left : i \in 1..Len(text_blocks)}
    IN  (CHOOSE m \in lefts : \A l \in lefts : l <= m) + ColumnMargin

\* left < page_width_estimate * 0.4
InLeftColumn(left, page_width_estimate) == 10 * left < 4 * page_width_estimate

\* is_two_column
IsTwoColumn(text_blocks) ==
    LET est == PageWidthEstimate(text_blocks)
        left_column_blocks == {i \in 1..Len(text_blocks) : InLeftColumn(text_blocks[i].left, est)}
        right_column_blocks == {i \in 1..Len(text_blocks) : ~ InLeftColumn(text_blocks[i].left, est)}
    IN  /\ Cardinality(left_column_blocks) > MinColumnBlocks
        /\ Cardinality(right_column_blocks) > MinColumnBlocks

\* next_idx for the last header of a column: one past the last later block of
\* the header's column, start_idx + 1 when there is none
ColumnEnd(text_blocks, start_idx, est) ==
    LET is_left_col == InLeftColumn(BlockAt(text_blocks, start_idx).left, est)
        same == {j \in (start_idx + 1)..(Len(text_blocks) - 1) :
                    InLeftColumn(BlockAt(text_blocks, j).left, est) = is_left_col}
    IN  IF same = {} THEN start_idx + 1
        ELSE (CHOOSE j \in same : \A k \in same : k <= j) + 1

RECURSIVE ColumnBoundaries(_, _, _, _, _)
\* the loop over one column's sections: the first boundary of a kind is kept
ColumnBoundaries(text_blocks, column_sections, i, boundaries, est) ==
    IF i > Len(column_sections) THEN boundaries
    ELSE LET start_idx == column_sections[i].idx
             section_type == column_sections[i].section_type
             next_idx == IF i + 1 <= Len(column_sections)
                         THEN column_sections[i + 1].idx
                         ELSE ColumnEnd(text_blocks, start_idx, est)
         IN  ColumnBoundaries(text_blocks, column_sections, i + 1,
                 IF DictHas(boundaries, section_type) THEN boundaries
                 ELSE DictPut(boundaries, section_type, <<start_idx + 1, next_idx>>),
                 est)

RECURSIVE SingleColumnBoundaries(_, _, _, _)
\* the single-column loop: a later header of a kind overwrites its boundary
SingleColumnBoundaries(text_blocks, section_starts, i, boundaries) ==
    IF i > Len(section_starts) THEN boundaries
    ELSE LET end_idx == IF i + 1 <= Len(section_starts)
                        THEN section_starts[i + 1].idx
                        ELSE Len(text_blocks)
         IN  SingleColumnBoundaries(text_blocks, section_starts, i + 1,
                 DictPut(boundaries, section_starts[i].section_type,
                         <<section_starts[i].idx + 1, end_idx>>))

\* _find_section_boundaries
FindSectionBoundaries(text_blocks) ==
    LET section_starts == SectionStarts(text_blocks)
        est == PageWidthEstimate(text_blocks)
        left_sections == SelectSeq(section_starts, LAMBDA s : InLeftColumn(s.left, est))
        right_sections == SelectSeq(section_starts, LAMBDA s : ~ InLeftColumn(s.left, est))
    IN  IF text_blocks = <<>> \/ section_starts = <<>> THEN <<>>
        ELSE IF IsTwoColumn(text_blocks)
        THEN ColumnBoundaries(text_blocks, right_sections, 1,
                 ColumnBoundaries(text_blocks, left_sections, 1, <<>>, est), est)
        ELSE SingleColumnBoundaries(text_blocks, section_starts, 1, <<>>)

\* text_blocks[start_idx:end_idx] as the set of (0-based) indices it takes
SliceIndices(text_blocks, start_idx, end_idx) ==
    {j \in 0..(Len(text_blocks) - 1) : start_idx <= j /\ j < end_idx}

-----------------------------------------------------------------------------
(* SpecSeg: _find_section_boundaries on the blocks of one document *)

MkBlock(text, left) == [text |-> text, left |-> left]

ProseSentence == <<"I", " ", "h", "a", "v", "e", " ", "5", " ", "y", "e", "a", "r", "s", " ", "o", "f", " ", "e", "x", "p", "e", "r", "i", "e", "n", "c", "e", " ", "i", "n", " ", "s", "o", "f", "t", "w", "a", "r", "e", " ", "d", "e", "v", "e", "l", "o", "p", "m", "e", "n", "t", ".">>
NumberedHeader == <<"2", ".", " ", "E", "x", "p", "e", "r", "i", "e", "n", "c", "e", ":">>
Long80 == <<"S", "k", "i", "l", "l", "s", "\n", "P", "y", "t", "h", "o", "n", " ", "a", "n", "d", " ", "S", "Q", "L", " ", "u", "s", "e", "d", " ", "d", "a", "i", "l", "y", " ", "f", "o", "r", " ", "r", "e", "p", "o", "r", "t", "i", "n", "g", " ", "P", "y", "t", "h", "o", "n", " ", "a", "n", "d", " ", "S", "Q", "L", " ", "u", "s", "e", "d", " ", "d", "a", "i", "l", "y", " ", "f", "o", "r", " ", "r", "e", "p">>
Long79 == <<"S", "k", "i", "l", "l", "s", "\n", "P", "y", "t", "h", "o", "n", " ", "a", "n", "d", " ", "S", "Q", "L", " ", "u", "s", "e", "d", " ", "d", "a", "i", "l", "y", " ", "f", "o", "r", " ", "r", "e", "p", "o", "r", "t", "i", "n", "g", " ", "P", "y", "t", "h", "o", "n", " ", "a", "n", "d", " ", "S", "Q", "L", " ", "u", "s", "e", "d", " ", "d", "a", "i", "l", "y", " ", "f", "o", "r", " ", "r", "e">>

\* block texts as the parsers hand them over (stripped)
HeaderCandidates ==
    {<<"E", "X", "P", "E", "R", "I", "E", "N", "C", "E">>,
     NumberedHeader,
     <<"-", "-", "-", " ", "W", "o", "r", "k", " ", "H", "i", "s", "t", "o", "r", "y", " ", "-", "-", "-">>,
     ProseSentence,
     <<"S", "k", "i", "l", "l", "s", " ", "|", " ", "T", "o", "o", "l", "s">>,
     <<"E", "d", "u", "c", "a", "t", "i", "o", "n", ",", " ", "M", "I", "T">>,
     <<"E", "x", "p", "e", "r", "i", "e", "n", "c", "e", "d", " ", "e", "n", "g", "i", "n", "e", "e", "r">>,
     <<"I", "I", ".", " ", "E", "d", "u", "c", "a", "t", "i", "o", "n">>,
     Long80,
     Long79,
     <<"P", "r", "o", "j", "e", "c", "t", "s", "\n", "S", "k", "i", "l", "l", "s">>,
     <<"P", "y", "t", "h", "o", "n">>}

\* single-column documents: every block at left 0, as parse_docx produces them
SingleColumnDocuments ==
    {[i \in 1..Len(texts) |-> MkBlock(texts[i], 0)] :
        texts \in SeqsUpTo(HeaderCandidates, MaxBlocks) \ {<<>>}}

\* the left column, at left 50: the SKILLS header and its body blocks
LeftColumn == [k \in 1..ColumnBlocks |->
                  MkBlock(IF k = 1 THEN <<"S", "K", "I", "L", "L", "S">> ELSE <<"S", "Q", "L">>, 50)]

\* the right column, at left 300: the EXPERIENCE header and its body blocks
RightColumn == [k \in 1..ColumnBlocks |->
                   MkBlock(IF k = 1 THEN <<"E", "X", "P", "E", "R", "I", "E", "N", "C", "E">> ELSE <<"A", "c", "m", "e">>, 300)]

\* the number of positions up to i that a merge gives to the column of position i
RankIn(merge, i) == Cardinality({j \in 1..i : merge[j] = merge[i]})

\* two-column documents: every merge of the two columns' blocks that keeps
\* each column's blocks in their top-to-bottom order
TwoColumnDocuments ==
    {[i \in 1..(2 * ColumnBlocks) |->
         IF merge[i] = "L" THEN LeftColumn[RankIn(merge, i)]
         ELSE RightColumn[RankIn(merge, i)]] :
        merge \in {m \in [1..(2 * ColumnBlocks) -> {"L", "R"}] :
                      Cardinality({i \in 1..(2 * ColumnBlocks) : m[i] = "L"}) = ColumnBlocks}}

SegInit ==
    /\ skillsYaml = None /\ configYaml = None
    /\ normalizer = None /\ engine = None
    /\ NormIdle
    /\ EvalIdle
    /\ ParsersIdle

\* _find_section_boundaries(text_blocks)
FindBoundariesCall(text_blocks) ==
    /\ segIn' = [text_blocks |-> text_blocks]
    /\ segStarts' = SectionStarts(text_blocks)
    /\ segOut' = FindSectionBoundaries(text_blocks)
    /\ UNCHANGED <<envVars, normVars, evalVars, expVars, docVars, thrVars, apiVars>>

SegmentSingleColumn ==
    /\ segIn = None
    /\ \E text_blocks \in SingleColumnDocuments : FindBoundariesCall(text_blocks)

SegmentTwoColumn ==
    /\ segIn = None
    /\ \E text_blocks \in TwoColumnDocuments : FindBoundariesCall(text_blocks)

SegNext == SegmentSingleColumn \/ SegmentTwoColumn

SpecSeg == SegInit /\ [][SegNext]_vars

\* the column of a block, by the 160-point line between the two columns
InLeftHalf(block) == block.left < 160

\* C7: in a two-column document every block in a section's range
\* text_blocks[start:end] lies in the column of the section's header, for
\* every merge of the two columns' blocks.
TwoColumnOwnColumnOnly ==
    (segIn # None /\ IsTwoColumn(segIn.text_blocks)) =>
        \A b \in 1..Len(segOut) :
            LET header == BlockAt(segIn.text_blocks, segOut[b].v[1] - 1)
            IN  \A j \in SliceIndices(segIn.text_blocks, segOut[b].v[1], segOut[b].v[2]) :
                    InLeftHalf(BlockAt(segIn.text_blocks, j)) = InLeftHalf(header)

\* a two-column document with both sections found and the columns' blocks alternating
TwoColumnSegmented ==
    /\ segIn # None
    /\ IsTwoColumn(segIn.text_blocks)
    /\ DictHas(segOut, "skills") /\ DictHas(segOut, "experience")
    /\ \A i \in 1..(Len(segIn.text_blocks) - 1) :
          InLeftHalf(segIn.text_blocks[i]) # InLeftHalf(segIn.text_blocks[i + 1])

\* the patterns of one section kind
PatternsOf(section_type) == DictGet(SECTION_PATTERNS, section_type)

\* a section pattern, preceded on its line only by numbering and decoration
\* characters, followed only by trailing decoration and then the end of the
\* text, a newline, "|" or ","
HeaderShape(text, patterns) ==
    \E a \in LineStarts(text), b \in Positions(text) :
        /\ a <= b
        /\ \A k \in a..(b - 1) :
              text[k] \in Space \cup LeadingDecoration \cup Digits \cup RomanDigits
                          \cup {".", ")", "-"}
        /\ \E i \in 1..Len(patterns) :
              \E c \in MatchFrom(patterns[i], 1, {b}, text) :
                  \E d \in c..(Len(text) + 1) :
                      /\ \A k \in c..(d - 1) : text[k] \in Space \cup TrailingDecoration
                      /\ d = Len(text) + 1 \/ text[d] \in {"\n", "|", ","}

LongBlockRejected ==
    /\ segIn # None
    /\ Len(segIn.text_blocks) = 2
    /\ segIn.text_blocks[1].text = Long80
    /\ segIn.text_blocks[2].text = Long79
    /\ segStarts = <<[idx |-> 1, section_type |-> "skills", left |-> 0]>>

\* C26: every boundary (start, end) returned by _find_section_boundaries is a
\* well-formed half-open range over the block sequence: start is the index of
\* the section's header block plus one, and start <= end <= len(text_blocks),
\* in single-column and two-column mode, when a section kind has several
\* headers, and when one block matches the patterns of more than one kind.
BoundariesWellFormed ==
    segIn # None =>
        \A b \in 1..Len(segOut) :
            /\ \E s \in 1..Len(segStarts) :
                   /\ segStarts[s].section_type = segOut[b].k
                   /\ segStarts[s].idx + 1 = segOut[b].v[1]
            /\ segOut[b].v[1] <= segOut[b].v[2]
            /\ segOut[b].v[2] <= Len(segIn.text_blocks)

\* the same statement for the documents in which no block is the header of two kinds
BoundariesWellFormedOneKindPerBlock ==
    (segIn # None /\ \A s, u \in 1..Len(segStarts) : segStarts[s].idx = segStarts[u].idx => s = u)
        => BoundariesWellFormed

-----------------------------------------------------------------------------
(* parsers/section_detector.py : _parse_experience and its helpers *)

\* title_keywords of _looks_like_job_title
TitleKeywords ==
    <<<<"e", "n", "g", "i", "n", "e", "e", "r">>,
      <<"d", "e", "v", "e", "l", "o", "p", "e", "r">>,
      <<"m", "a", "n", "a", "g", "e", "r">>,
      <<"a", "n", "a", "l", "y", "s", "t">>,
      <<"d", "e", "s", "i", "g", "n", "e", "r">>,
      <<"a", "r", "c", "h", "i", "t", "e", "c", "t">>,
      <<"l", "e", "a", "d">>,
      <<"s", "e", "n", "i", "o", "r">>,
      <<"j", "u", "n", "i", "o", "r">>,
      <<"i", "n", "t", "e", "r", "n">>,
      <<"d", "i", "r", "e", "c", "t", "o", "r">>,
      <<"c", "o", "n", "s", "u", "l", "t", "a", "n", "t">>,
      <<"s", "p", "e", "c", "i", "a", "l", "i", "s", "t">>,
      <<"a", "d", "m", "i", "n", "i", "s", "t", "r", "a", "t", "o", "r">>,
      <<"c", "o", "o", "r", "d", "i", "n", "a", "t", "o", "r">>,
      <<"o", "f", "f", "i", "c", "e", "r">>,
      <<"e", "x", "e", "c", "u", "t", "i", "v", "e">>,
      <<"a", "s", "s", "i", "s", "t", "a", "n", "t">>,
      <<"a", "s", "s", "o", "c", "i", "a", "t", "e">>,
      <<"f", "o", "u", "n", "d", "e", "r">>,
      <<"c", "e", "o">>,
      <<"c", "t", "o">>,
      <<"s", "c", "i", "e", "n", "t", "i", "s", "t">>,
      <<"r", "e", "s", "e", "a", "r", "c", "h", "e", "r">>,
      <<"s", "t", "u", "d", "e", "n", "t">>,
      <<"r", "e", "p", "r", "e", "s", "e", "n", "t", "a", "t", "i", "v", "e">>,
      <<"a", "g", "e", "n", "t">>,
      <<"t", "e", "c", "h", "n", "i", "c", "i", "a", "n">>,
      <<"s", "u", "p", "e", "r", "v", "i", "s", "o", "r">>,
      <<"h", "e", "a", "d">>,
      <<"v", "p">>,
      <<"p", "r", "e", "s", "i", "d", "e", "n", "t">>,
      <<"p", "r", "i", "n", "c", "i", "p", "a", "l">>,
      <<"f", "r", "e", "e", "l", "a", "n", "c", "e", "r">>,
      <<"c", "o", "n", "t", "r", "a", "c", "t", "o", "r">>>>

\* _looks_like_job_title
LooksLikeJobTitle(text) ==
    LET lowered == Lower(text)
    IN  \E i \in 1..Len(TitleKeywords) : Contains(TitleKeywords[i], lowered)

\* the month abbreviations of _looks_like_date
MonthAbbreviations ==
    <<<<"j", "a", "n">>,
      <<"f", "e", "b">>,
      <<"m", "a", "r">>,
      <<"a", "p", "r">>,
      <<"m", "a", "y">>,
      <<"j", "u", "n">>,
      <<"j", "u", "l">>,
      <<"a", "u", "g">>,
      <<"s", "e", "p">>,
      <<"o", "c", "t">>,
      <<"n", "o", "v">>,
      <<"d", "e", "c">>>>

\* re.search(r"\d{4}", text)
HasFourDigits(text) ==
    \E i \in 1..(Len(text) - 3) : \A k \in 0..3 : text[i + k] \in Digits

\* re.search(r"(present|current)", text, re.IGNORECASE)
MentionsPresent(text) ==
    LET lowered == Lower(text)
    IN  \/ Contains(<<"p", "r", "e", "s", "e", "n", "t">>, lowered)
        \/ Contains(<<"c", "u", "r", "r", "e", "n", "t">>, lowered)

\* _looks_like_date
LooksLikeDate(text) ==
    LET lowered == Lower(text)
    IN  \/ HasFourDigits(lowered)
        \/ \E i \in 1..Len(MonthAbbreviations) : Contains(MonthAbbreviations[i], lowered)
        \/ MentionsPresent(text)

\* (20\d{2}|19\d{2}) at position i
YearAt(text, i) ==
    /\ i + 3 <= Len(text)
    /\ <<text[i], text[i + 1]>> \in {<<"2", "0">>, <<"1", "9">>}
    /\ text[i + 2] \in Digits /\ text[i + 3] \in Digits

RECURSIVE FindYears(_, _)
\* re.findall(r"(20\d{2}|19\d{2})", text): the matches from left to right, not overlapping
FindYears(text, i) ==
    LET hits == {j \in i..Len(text) : YearAt(text, j)}
        first == CHOOSE j \in hits : \A k \in hits : j <= k
    IN  IF hits = {} THEN <<>>
        ELSE <<SubSeq(text, first, first + 3)>> \o FindYears(text, first + 4)

\* _extract_dates
ExtractDates(text) ==
    Take(FindYears(text, 1) \o (IF MentionsPresent(text) THEN <<<<"P", "r", "e", "s", "e", "n", "t">>>> ELSE <<>>), 2)

\* re.split on a character class / str.split(sep): the parts between the separators
SplitOn(text, seps) ==
    LET cuts == {i \in 1..Len(text) : text[i] \in seps}
        \* the k-th separator position; 0 and Len(text) + 1 frame the text
        cut(k) == IF k = 0 THEN 0
                  ELSE IF k > Cardinality(cuts) THEN Len(text) + 1
                  ELSE CHOOSE i \in cuts : Cardinality({j \in cuts : j < i}) = k - 1
    IN  [k \in 1..(Cardinality(cuts) + 1) |-> SubSeq(text, cut(k - 1) + 1, cut(k) - 1)]

\* re.split(r"[,|<en-dash>-]", text)
TitleParts(text) == SplitOn(text, {",", "|", cEnDash, "-"})

\* _extract_company
ExtractCompany(text) == Strip(TitleParts(text)[1])

\* _extract_job_title
ExtractJobTitle(text) ==
    IF Len(TitleParts(text)) > 1 THEN Strip(TitleParts(text)[2])
    ELSE Strip(TitleParts(text)[1])

\* text.strip().startswith(prefixes)
StartsWithAny(text, prefixes) ==
    Strip(text) # <<>> /\ Strip(text)[1] \in prefixes

\* is_bullet with no bullet prefix recognised
IsBulletNever(text) == FALSE

\* is_bullet
IsBullet(text) == StartsWithAny(text, {"-", cBullet, cSmallSquare, cCircle, "*"})

\* ExperienceEntry(company=..., title=..., description="", source_text=text)
NewExperienceEntry(text) ==
    [company |-> ExtractCompany(text), title |-> ExtractJobTitle(text),
     start_date |-> NoneStr, end_date |-> NoneStr,
     description |-> <<>>, responsibilities |-> <<>>, source_text |-> text]

\* the "elif current_entry:" branch: a date line, else a bullet line
AddContent(current_entry, text) ==
    IF LooksLikeDate(text)
    THEN LET dates == ExtractDates(text)
         IN  IF dates # <<>>
             THEN [current_entry EXCEPT
                      !.start_date = dates[1],
                      !.end_date = IF Len(dates) > 1 THEN dates[2] ELSE NoneStr]
             ELSE current_entry
    ELSE IF StartsWithAny(text, {"-", cBullet, cSmallSquare, cCircle})
    THEN LET clean_text == Strip(LStripChars(text, {"-", cBullet, cSmallSquare, cCircle, " "}))
         IN  [current_entry EXCEPT
                 !.responsibilities = Append(@, clean_text),
                 !.description = @ \o <<" ">> \o clean_text]
    ELSE current_entry

RECURSIVE ParseBlocks(_, _, _, _)
\* the "for block in blocks" loop and the final append
ParseBlocks(blocks, i, entries, current_entry) ==
    IF i > Len(blocks)
    THEN (IF current_entry # None THEN Append(entries, current_entry) ELSE entries)
    ELSE LET text == blocks[i].text
             is_likely_title == LooksLikeJobTitle(text) /\ ~ IsBullet(text)
         IN  IF is_likely_title
                /\ (current_entry = None \/ blocks[i].is_bold \/ Len(text) < MaxTitleLen)
             THEN ParseBlocks(blocks, i + 1,
                              IF current_entry # None THEN Append(entries, current_entry)
                              ELSE entries,
                              NewExperienceEntry(text))
             ELSE IF current_entry # None
             THEN ParseBlocks(blocks, i + 1, entries, AddContent(current_entry, text))
             ELSE ParseBlocks(blocks, i + 1, entries, current_entry)

\* text.split("\n")
SplitLines(text) == SplitOn(text, {"\n"})

\* the blocks made from the text's non-blank lines when no blocks are given
BlocksFromText(text) ==
    LET lines == SelectSeq(SplitLines(text), LAMBDA line : Strip(line) # <<>>)
    IN  [i \in 1..Len(lines) |-> [text |-> Strip(lines[i]), is_bold |-> FALSE]]

\* _parse_experience
ParseExperience(text, blocks) ==
    ParseBlocks(IF blocks = <<>> /\ text # <<>> THEN BlocksFromText(text) ELSE blocks,
                1, <<>>, None)

-----------------------------------------------------------------------------
(* SpecExp: _parse_experience on the blocks of an experience section *)

TitleBlock == [text |-> <<"S", "o", "f", "t", "w", "a", "r", "e", " ", "E", "n", "g", "i", "n", "e", "e", "r">>, is_bold |-> TRUE]
CompanyDateBlock == [text |-> <<"G", "o", "o", "g", "l", "e", ",", " ", "2", "0", "2", "0", "-", "P", "r", "e", "s", "e", "n", "t">>, is_bold |-> FALSE]
EngineersBullet == [text |-> <<cBullet, " ", "D", "e", "v", "e", "l", "o", "p", "e", "d", " ", "b", "a", "c", "k", "e", "n", "d", " ", "s", "e", "r", "v", "i", "c", "e", "s", " ", "f", "o", "r", " ", "5", "0", "0", "+", " ", "e", "n", "g", "i", "n", "e", "e", "r", "s", " ", "t", "o", " ", "u", "s", "e", " ", "d", "a", "i", "l", "y">>, is_bold |-> FALSE]
JuniorBullet == [text |-> <<cBullet, " ", "M", "a", "n", "a", "g", "e", "d", " ", "a", " ", "t", "e", "a", "m", " ", "o", "f", " ", "5", " ", "j", "u", "n", "i", "o", "r", " ", "d", "e", "v", "e", "l", "o", "p", "e", "r", "s">>, is_bold |-> FALSE]

\* the blocks of repro_bug.py
ReproBlocks == <<TitleBlock, CompanyDateBlock, EngineersBullet, JuniorBullet>>

ExperienceBlocks ==
    {TitleBlock, CompanyDateBlock, EngineersBullet, JuniorBullet,
     [text |-> <<"*", " ", "L", "e", "a", "d", " ", "d", "e", "v", "e", "l", "o", "p", "e", "r">>, is_bold |-> TRUE],
     [text |-> <<"D", "a", "t", "a", " ", "A", "n", "a", "l", "y", "s", "t">>, is_bold |-> FALSE],
     [text |-> <<"R", "e", "s", "p", "o", "n", "s", "i", "b", "l", "e", " ", "a", "s", " ", "a", "c", "t", "i", "n", "g", " ", "o", "p", "e", "r", "a", "t", "i", "o", "n", "s", " ", "m", "a", "n", "a", "g", "e", "r", " ", "f", "o", "r", " ", "t", "h", "e", " ", "r", "e", "g", "i", "o", "n", "a", "l", " ", "w", "a", "r", "e", "h", "o", "u", "s", "e", " ", "n", "e", "t", "w", "o", "r", "k", " ", "a", "n", "d", " ", "s", "t", "a", "f", "f">>, is_bold |-> FALSE]}

ExpInit == SegInit

\* _parse_experience("", blocks)
ParseExperienceBlocks ==
    /\ expIn = None
    /\ \E blocks \in SeqsUpTo(ExperienceBlocks, MaxExpBlocks) \ {<<>>} :
          /\ expIn' = [text |-> <<>>, blocks |-> blocks]
          /\ expOut' = ParseExperience(<<>>, blocks)
    /\ UNCHANGED <<envVars, normVars, evalVars, segVars, docVars, thrVars, apiVars>>

\* _parse_experience(text, []): the raw-text fallback of detect_sections
ParseExperienceText ==
    /\ expIn = None
    /\ \E blocks \in SeqsUpTo(ExperienceBlocks, MaxExpLines) \ {<<>>} :
          LET text == Join([i \in 1..Len(blocks) |-> blocks[i].text], <<"\n">>)
          IN  /\ expIn' = [text |-> text, blocks |-> <<>>]
              /\ expOut' = ParseExperience(text, <<>>)
    /\ UNCHANGED <<envVars, normVars, evalVars, segVars, docVars, thrVars, apiVars>>

ExpNext == ParseExperienceBlocks \/ ParseExperienceText

SpecExp == ExpInit /\ [][ExpNext]_vars

\* a text whose first non-blank character is one of the bullet characters
BulletText(text) ==
    \E i \in 1..Len(text) :
        /\ text[i] \in {"-", cBullet, cSmallSquare, cCircle, "*"}
        /\ \A k \in 1..(i - 1) : text[k] \in Space

\* the blocks _parse_experience works on
BlocksParsed ==
    IF expIn.blocks = <<>> THEN BlocksFromText(expIn.text) ELSE expIn.blocks

\* C9: no experience entry is started by a bullet block, whatever keywords
\* the bullet holds: every entry's source_text is a non-bullet block, there
\* are at most as many entries as non-bullet blocks, and the title, company/date
\* and two bullet blocks of repro_bug.py yield exactly one entry.
NoBulletStartsEntry ==
    expIn # None =>
        /\ \A e \in 1..Len(expOut) : ~ BulletText(expOut[e].source_text)
        /\ Len(expOut) <= Cardinality({i \in 1..Len(BlocksParsed) :
                                          ~ BulletText(BlocksParsed[i].text)})
        /\ expIn.blocks = ReproBlocks => Len(expOut) = 1

\* the blocks of repro_bug.py parsed into one entry, the bullet with "engineers" attached to it
ReproParsed ==
    /\ expIn # None
    /\ expIn.blocks = ReproBlocks
    /\ Len(expOut) = 1
    /\ expOut[1].source_text = TitleBlock.text
    /\ Len(expOut[1].responsibilities) >= 1

\* a block whose text starts with one of the prefixes of the responsibility branch
ResponsibilityBullet(block) ==
    StartsWithAny(block.text, {"-", cBullet, cSmallSquare, cCircle})

\* block i is where an entry is opened: a title-like non-bullet block that is
\* the first such block, or bold, or shorter than MaxTitleLen
OpensEntry(blocks, i) ==
    /\ LooksLikeJobTitle(blocks[i].text) /\ ~ IsBullet(blocks[i].text)
    /\ \/ \A j \in 1..(i - 1) :
              ~ (LooksLikeJobTitle(blocks[j].text) /\ ~ IsBullet(blocks[j].text))
       \/ blocks[i].is_bold
       \/ Len(blocks[i].text) < MaxTitleLen

\* the bullet blocks between the title block at index start and the next title block
BulletsOfEntry(blocks, start) ==
    {i \in (start + 1)..Len(blocks) :
        /\ ResponsibilityBullet(blocks[i])
        /\ \A j \in (start + 1)..i : ~ OpensEntry(blocks, j)}

\* the index of the e-th title block
EntryStart(blocks, e) ==
    CHOOSE i \in 1..Len(blocks) :
        /\ OpensEntry(blocks, i)
        /\ Cardinality({j \in 1..(i - 1) : OpensEntry(blocks, j)}) = e - 1

\* C19: every bullet-prefixed block that follows an open entry is appended,
\* bullet stripped, to that entry's responsibilities and concatenated into its
\* description, whatever else the bullet text contains (a year, a month
\* abbreviation, present/current); the number of responsibilities of an entry
\* equals the number of bullet blocks between its title block and the next.
BulletsBecomeResponsibilities ==
    expIn # None =>
        \A e \in 1..Len(expOut) :
            LET bullets == BulletsOfEntry(BlocksParsed, EntryStart(BlocksParsed, e))
            IN  /\ Len(expOut[e].responsibilities) = Cardinality(bullets)
                /\ \A i \in bullets :
                       LET clean_text == Strip(LStripChars(BlocksParsed[i].text, {"-", cBullet, cSmallSquare, cCircle, " "}))
                       IN  /\ \E k \in 1..Len(expOut[e].responsibilities) :
                                  expOut[e].responsibilities[k] = clean_text
                           /\ Contains(<<" ">> \o clean_text, expOut[e].description)

\* the same statement for the bullets that hold no date pattern
PlainBulletsBecomeResponsibilities ==
    expIn # None =>
        \A e \in 1..Len(expOut) :
            LET bullets == {i \in BulletsOfEntry(BlocksParsed, EntryStart(BlocksParsed, e)) :
                               ~ LooksLikeDate(BlocksParsed[i].text)}
            IN  expOut[e].responsibilities =
                    [k \in 1..Cardinality(bullets) |->
                        Strip(LStripChars(
                            BlocksParsed[CHOOSE i \in bullets :
                                Cardinality({j \in bullets : j < i}) = k - 1].text,
                            {"-", cBullet, cSmallSquare, cCircle, " "}))]

-----------------------------------------------------------------------------
(* SpecThr: threads of one process calling get_normalizer() and get_engine().
   A getter is three steps of its thread: the test "is None", the constructor
   call with the assignment to the module global, and the return statement that
   reads the global again; threads may be switched between any two of them. *)

ThrInit ==
    /\ skillsYaml = TaxTech /\ configYaml = DefaultConfig
    /\ normalizer = None /\ engine = None
    /\ NormIdle
    /\ EvalIdle
    /\ ParsersIdle

\* "if _normalizer_instance is None:" / "if _engine_instance is None:"
CheckInstance(t, g) ==
    /\ threads[t].pc = "idle"
    /\ Len(threads[t].got) < MaxGetterCalls
    /\ threads' = [threads EXCEPT ![t].getter = g,
                                  ![t].pc = IF singletons[g].id = 0 THEN "construct" ELSE "return"]
    /\ UNCHANGED <<envVars, singletons, normVars, evalVars, segVars, expVars, docVars, apiVars>>

\* SkillNormalizer() / RuleEngine(): the file is loaded and a new object built
ConstructInstance(t) ==
    /\ threads[t].pc = "construct"
    /\ singletons' = [singletons EXCEPT ![threads[t].getter].constructed = @ + 1]
    /\ threads' = [threads EXCEPT ![t].local = singletons[threads[t].getter].constructed + 1,
                                  ![t].pc = "assign"]
    /\ UNCHANGED <<envVars, normVars, evalVars, segVars, expVars, docVars, apiVars>>

\* the assignment of the new object to the module global
AssignInstance(t) ==
    /\ threads[t].pc = "assign"
    /\ singletons' = [singletons EXCEPT ![threads[t].getter].id = threads[t].local]
    /\ threads' = [threads EXCEPT ![t].pc = "return"]
    /\ normalizer' = IF threads[t].getter = "normalizer" THEN NewNormalizer(skillsYaml) ELSE normalizer
    /\ engine' = IF threads[t].getter = "engine" THEN NewEngine(configYaml) ELSE engine
    /\ UNCHANGED <<skillsYaml, configYaml, normVars, evalVars, segVars, expVars, docVars, apiVars>>

\* "return _normalizer_instance" / "return _engine_instance": the global is read again
ReturnInstance(t) ==
    /\ threads[t].pc = "return"
    /\ threads' = [threads EXCEPT
                      ![t].got = Append(@, [getter |-> threads[t].getter,
                                            id |-> singletons[threads[t].getter].id]),
                      ![t].pc = "idle", ![t].getter = "none", ![t].local = 0]
    /\ UNCHANGED <<envVars, singletons, normVars, evalVars, segVars, expVars, docVars, apiVars>>

ThrNext ==
    \E t \in Threads :
        \/ \E g \in Getters : CheckInstance(t, g)
        \/ ConstructInstance(t)
        \/ AssignInstance(t)
        \/ ReturnInstance(t)

SpecThr == ThrInit /\ [][ThrNext]_vars

\* C24: under every interleaving of concurrent first calls to get_normalizer()
\* (and likewise get_engine()) from several threads, the taxonomy (config) is
\* loaded and the singleton constructed at most once, and every caller, then
\* and later, receives that same instance.
SingletonConstructedOnce ==
    \A g \in Getters :
        /\ singletons[g].constructed <= 1
        /\ \A t \in Threads : \A i \in 1..Len(threads[t].got) :
               threads[t].got[i].getter = g => threads[t].got[i].id = 1

-----------------------------------------------------------------------------
(* parsers/section_detector.py : detect_sections.  _parse_projects,
   _parse_certifications and _parse_contact fill keys of the result that
   nothing below reads (projects, certifications, contact_info); the model
   keeps the keys education, experience and skills. *)

MinOf(S) == CHOOSE x \in S : \A y \in S : x <= y

\* s[a:b] for 0 <= a
PySlice(s, a, b) == SubSeq(s, a + 1, Min(b, Len(s)))

\* the alternatives after "(?:^|\n)\s*" in the header pattern of each kind
ExperienceHeaders ==
    <<<<Lit(<<"e", "x", "p", "e", "r", "i", "e", "n", "c", "e">>)>>,
      <<Lit(<<"w", "o", "r", "k">>), Ws, Lit(<<"e", "x", "p", "e", "r", "i", "e", "n", "c", "e">>)>>,
      <<Lit(<<"p", "r", "o", "f", "e", "s", "s", "i", "o", "n", "a", "l">>), Ws, Lit(<<"e", "x", "p", "e", "r", "i", "e", "n", "c", "e">>)>>,
      <<Lit(<<"e", "m", "p", "l", "o", "y", "m", "e", "n", "t">>), Opt(<<<<Ws, Lit(<<"h", "i", "s", "t", "o", "r", "y">>)>>>>)>>,
      <<Lit(<<"w", "o", "r", "k">>), Ws, Lit(<<"h", "i", "s", "t", "o", "r", "y">>)>>,
      <<Lit(<<"c", "a", "r", "e", "e", "r">>), Ws, Lit(<<"h", "i", "s", "t", "o", "r", "y">>)>>>>

EducationHeaders ==
    <<<<Lit(<<"e", "d", "u", "c", "a", "t", "i", "o", "n">>)>>,
      <<Lit(<<"a", "c", "a", "d", "e", "m", "i", "c">>), Ws, Alt(<<<<Lit(<<"b", "a", "c", "k", "g", "r", "o", "u", "n", "d">>)>>, <<Lit(<<"p", "r", "o", "f", "i", "l", "e">>)>>>>)>>,
      <<Lit(<<"q", "u", "a", "l", "i", "f", "i", "c", "a", "t", "i", "o", "n", "s">>)>>,
      <<Lit(<<"d", "e", "g", "r", "e", "e">>), Opt(<<<<Lit(<<"s">>)>>>>)>>>>

\* next_section of each kind
ExperienceNextSection ==
    <<<<Lit(<<"e", "d", "u", "c", "a", "t", "i", "o", "n">>)>>, <<Lit(<<"s", "k", "i", "l", "l", "s">>)>>, <<Lit(<<"p", "r", "o", "j", "e", "c", "t", "s">>)>>, <<Lit(<<"c", "e", "r", "t", "i", "f", "i", "c", "a", "t", "i", "o", "n", "s">>)>>, <<Lit(<<"a", "w", "a", "r", "d", "s">>)>>, <<Lit(<<"r", "e", "f", "e", "r", "e", "n", "c", "e", "s">>)>>, <<Lit(<<"v", "o", "l", "u", "n", "t", "e", "e", "r">>)>>>>

EducationNextSection ==
    <<<<Lit(<<"e", "x", "p", "e", "r", "i", "e", "n", "c", "e">>)>>, <<Lit(<<"s", "k", "i", "l", "l", "s">>)>>, <<Lit(<<"p", "r", "o", "j", "e", "c", "t", "s">>)>>, <<Lit(<<"a", "w", "a", "r", "d", "s">>)>>, <<Lit(<<"c", "e", "r", "t", "i", "f", "i", "c", "a", "t", "i", "o", "n", "s">>)>>>>

\* where "(?:^|\n)" can match: 0 for ^, i for the newline that is character i
LineAnchors(text) == {0} \cup {i \in 1..Len(text) : text[i] = "\n"}

\* the positions where "\s*(?:alternatives)" can end when "(?:^|\n)" matched at c
AnchoredEnds(alts, low, c) == MatchFrom(<<Ws, Alt(alts)>>, 1, {c + 1}, low)

\* the match object of the leftmost anchor that has a match: start() and end()
\* as Python offsets.  The alternatives of these patterns begin with different
\* words and their optional tails are greedy, so end() is the farthest end.
MatchAtAnchors(alts, low, hits) ==
    IF hits = {} THEN None
    ELSE [st |-> "match",
          start |-> Max(MinOf(hits), 1) - 1,
          end |-> MaxOf(AnchoredEnds(alts, low, MinOf(hits))) - 1]

SearchLower(alts, low) ==
    MatchAtAnchors(alts, low, {c \in LineAnchors(low) : AnchoredEnds(alts, low, c) # {}})

\* re.search(rf"(?:^|\n)\s*(?:alternatives)", text, re.IGNORECASE)
SearchLine(alts, text) == SearchLower(alts, Lower(text))

\* "Only return if we got substantial content"
MinSectionChars == 50

\* "Take up to 2000 chars or end of text"
MaxSectionChars == 2000

\* raw_text[start_pos:end_pos] as a slice of rest == raw_text[start_pos:]
SectionSpan(rest, next_match) ==
    IF next_match # None THEN PySlice(rest, 0, next_match.start)
    ELSE PySlice(rest, 0, MaxSectionChars)

\* "if len(section_text) > 50: return section_text", else ""
AcceptSection(section_text) ==
    IF Len(section_text) > MinSectionChars THEN section_text ELSE <<>>

\* from "start_pos = match.end()" on
ExtractRest(rest, next_section) ==
    AcceptSection(Strip(SectionSpan(rest, SearchLine(next_section, rest))))

ExtractAfterHeader(raw_text, match, next_section) ==
    IF match = None THEN <<>>
    ELSE ExtractRest(PySlice(raw_text, match.end, Len(raw_text)), next_section)

\* _extract_section_from_raw_text
ExtractSectionFromRawText(raw_text, section_type) ==
    IF section_type = "experience"
    THEN ExtractAfterHeader(raw_text, SearchLine(ExperienceHeaders, raw_text), ExperienceNextSection)
    ELSE ExtractAfterHeader(raw_text, SearchLine(EducationHeaders, raw_text), EducationNextSection)

\* the characters matched by \w
WordChars ==
    {UpperChars[i] : i \in 1..Len(UpperChars)} \cup {LowerChars[i] : i \in 1..Len(LowerChars)}
        \cup Digits \cup {"_"}

\* \b just before the character at offset p (0-based)
WordBoundary(text, p) ==
    (p > 0 /\ text[p] \in WordChars) # (p < Len(text) /\ text[p + 1] \in WordChars)

\* one alternative of a technology pattern: a literal with or without \b
\* before and after it
Word(word, lead, trail) == [word |-> word, lead |-> lead, trail |-> trail]

\* the alternative matches at offset p
WordMatchesAt(alt, text, p) ==
    /\ p + Len(alt.word) <= Len(text)
    /\ \A k \in 1..Len(alt.word) : text[p + k] = alt.word[k]
    /\ alt.lead => WordBoundary(text, p)
    /\ alt.trail => WordBoundary(text, p + Len(alt.word))

\* tech_patterns: the entries whose words occur in the documents below, in the
\* order of the list; no other entry of the list matches any of these documents
TechPatterns ==
    <<[alts |-> <<Word(<<"p", "y", "t", "h", "o", "n">>, TRUE, TRUE)>>,
       canonical |-> <<"P", "y", "t", "h", "o", "n">>, category |-> "programming_languages"],
      [alts |-> <<Word(<<"j", "a", "v", "a">>, TRUE, TRUE)>>,
       canonical |-> <<"J", "a", "v", "a">>, category |-> "programming_languages"],
      [alts |-> <<Word(<<"s", "q", "l">>, TRUE, TRUE)>>,
       canonical |-> <<"S", "Q", "L">>, category |-> "programming_languages"],
      [alts |-> <<Word(<<"a", "w", "s">>, TRUE, TRUE), Word(<<"a", "m", "a", "z", "o", "n", " ", "w", "e", "b", " ", "s", "e", "r", "v", "i", "c", "e", "s">>, FALSE, TRUE)>>,
       canonical |-> <<"A", "W", "S">>, category |-> "cloud"]>>

\* the offsets where some alternative of a pattern matches
MatchOffsets(alts, text) ==
    {p \in 0..(Len(text) - 1) : \E a \in 1..Len(alts) : WordMatchesAt(alts[a], text, p)}

\* the first match re.finditer yields: leftmost offset, first alternative there
FirstMatchAt(alts, text, p) ==
    [start |-> p,
     end |-> p + Len(alts[MinOf({a \in 1..Len(alts) : WordMatchesAt(alts[a], text, p)})].word)]

\* the window of source_text on each side of a match
SkillContext == 50

\* ExtractedSkill(name=match.group(), canonical_name=canonical, ...,
\*                source_text=text[max(0, start - 50):min(len(text), end + 50)])
NewSkill(text, text_lower, pattern, match) ==
    [name |-> PySlice(text_lower, match.start, match.end),
     canonical_name |-> pattern.canonical,
     category |-> pattern.category,
     confidence |-> "high",
     source_text |-> PySlice(text, Max(0, match.start - SkillContext),
                             Min(Len(text), match.end + SkillContext))]

\* the "for match in matches" loop of one pattern: only a first match whose
\* canonical name is not in seen appends a skill
SkillsOfPattern(text, text_lower, pattern, offsets, skills, seen) ==
    IF offsets = {} \/ pattern.canonical \in seen THEN skills
    ELSE Append(skills, NewSkill(text, text_lower, pattern,
                                 FirstMatchAt(pattern.alts, text_lower, MinOf(offsets))))

RECURSIVE SkillsFrom(_, _, _, _)
\* the "for pattern, canonical, category in tech_patterns" loop; seen holds the
\* canonical names of the skills appended so far
SkillsFrom(text, text_lower, i, skills) ==
    IF i > Len(TechPatterns) THEN skills
    ELSE SkillsFrom(text, text_lower, i + 1,
             SkillsOfPattern(text, text_lower, TechPatterns[i],
                             MatchOffsets(TechPatterns[i].alts, text_lower), skills,
                             {skills[k].canonical_name : k \in 1..Len(skills)}))

\* _extract_skills_from_text
ExtractSkillsFromText(text) == SkillsFrom(text, Lower(text), 1, <<>>)

\* _parse_skills
ParseSkills(text, blocks) == ExtractSkillsFromText(text)

RECURSIVE MergeSkillsAppendAll(_, _, _, _)
\* the merge loop without its membership test
MergeSkillsAppendAll(skills, all_skills, i, existing_skill_names) ==
    IF i > Len(all_skills) THEN skills
    ELSE MergeSkillsAppendAll(Append(skills, all_skills[i]), all_skills, i + 1,
                              existing_skill_names \cup {all_skills[i].canonical_name})

RECURSIVE MergeSkills(_, _, _, _)
\* "for skill in all_skills: if skill.canonical_name not in existing_skill_names"
MergeSkills(skills, all_skills, i, existing_skill_names) ==
    IF i > Len(all_skills) THEN skills
    ELSE IF all_skills[i].canonical_name \in existing_skill_names
    THEN MergeSkills(skills, all_skills, i + 1, existing_skill_names)
    ELSE MergeSkills(Append(skills, all_skills[i]), all_skills, i + 1,
                     existing_skill_names \cup {all_skills[i].canonical_name})

\* the words whose presence decides each alternative of degree_patterns
\* ("x\.?y\.?" is found exactly when "xy" or "x.y" is)
DegreeWords ==
    {<<"b", "a", "c", "h", "e", "l", "o", "r">>, <<"m", "a", "s", "t", "e", "r">>, <<"p", "h", "d">>, <<"d", "o", "c", "t", "o", "r", "a", "t", "e">>, <<"a", "s", "s", "o", "c", "i", "a", "t", "e">>, <<"b", "s">>, <<"b", ".", "s">>, <<"m", "s">>, <<"m", ".", "s">>, <<"b", "a">>, <<"b", ".", "a">>, <<"m", "a">>, <<"m", ".", "a">>, <<"b", "t", "e", "c", "h">>, <<"b", ".", "t", "e", "c", "h">>, <<"m", "t", "e", "c", "h">>, <<"m", ".", "t", "e", "c", "h">>}

\* has_degree: re.search of degree_patterns under re.IGNORECASE
HasDegree(text) == \E w \in DegreeWords : Contains(w, Lower(text))

\* _looks_like_institution
LooksLikeInstitution(text) ==
    \E k \in {<<"u", "n", "i", "v", "e", "r", "s", "i", "t", "y">>, <<"c", "o", "l", "l", "e", "g", "e">>, <<"i", "n", "s", "t", "i", "t", "u", "t", "e">>, <<"s", "c", "h", "o", "o", "l">>} : Contains(k, Lower(text))

\* _looks_like_gpa
LooksLikeGpa(text) ==
    \E k \in {<<"g", "p", "a">>, <<"c", "g", "p", "a">>, <<"g", "r", "a", "d", "e">>} : Contains(k, Lower(text))

\* _extract_institution
ExtractInstitutionFrom(parts, hits) ==
    IF hits = {} THEN Strip(parts[1]) ELSE Strip(parts[MinOf(hits)])

ExtractInstitution(text) ==
    ExtractInstitutionFrom(TitleParts(text),
        {i \in 1..Len(TitleParts(text)) : LooksLikeInstitution(TitleParts(text)[i])})

\* degree_map, in dict order
DegreeMap ==
    <<[words |-> {<<"b", "a", "c", "h", "e", "l", "o", "r">>}, degree |-> <<"B", "a", "c", "h", "e", "l", "o", "r", "'", "s">>],
      [words |-> {<<"m", "a", "s", "t", "e", "r">>}, degree |-> <<"M", "a", "s", "t", "e", "r", "'", "s">>],
      [words |-> {<<"p", "h", "d">>, <<"d", "o", "c", "t", "o", "r", "a", "t", "e">>}, degree |-> <<"P", "h", "D">>],
      [words |-> {<<"b", "s">>, <<"b", ".", "s">>}, degree |-> <<"B", ".", "S", ".">>],
      [words |-> {<<"m", "s">>, <<"m", ".", "s">>}, degree |-> <<"M", ".", "S", ".">>],
      [words |-> {<<"b", "a">>, <<"b", ".", "a">>}, degree |-> <<"B", ".", "A", ".">>],
      [words |-> {<<"m", "a">>, <<"m", ".", "a">>}, degree |-> <<"M", ".", "A", ".">>],
      [words |-> {<<"b", "t", "e", "c", "h">>, <<"b", ".", "t", "e", "c", "h">>}, degree |-> <<"B", ".", "T", "e", "c", "h">>],
      [words |-> {<<"m", "t", "e", "c", "h">>, <<"m", ".", "t", "e", "c", "h">>}, degree |-> <<"M", ".", "T", "e", "c", "h">>]>>

DegreeHits(text) ==
    {i \in 1..Len(DegreeMap) : \E w \in DegreeMap[i].words : Contains(w, Lower(text))}

\* _extract_degree
ExtractDegree(text) ==
    IF DegreeHits(text) = {} THEN <<"D", "e", "g", "r", "e", "e">> ELSE DegreeMap[MinOf(DegreeHits(text))].degree

\* the end of the longest run of characters of a class from position p
RunEnd(text, p, cls) ==
    MinOf({q \in p..(Len(text) + 1) : q = Len(text) + 1 \/ text[q] \notin cls})

\* an optional character at position p
OptCh(text, p, ch) == IF p <= Len(text) /\ text[p] = ch THEN p + 1 ELSE p

\* "\d*\.?\d*" from position p
NumberEnd(text, p) == RunEnd(text, OptCh(text, RunEnd(text, p, Digits), "."), Digits)

\* "(\d+\.?\d*)?" from position p
OptNumberEnd(text, p) ==
    IF p <= Len(text) /\ text[p] \in Digits THEN NumberEnd(text, p) ELSE p

\* "(\d+\.?\d*)\s*/?\s*(\d+\.?\d*)?" from a digit at position p: every piece
\* after the first digit is optional, so the greedy match is the one taken
GpaEnd(text, p) ==
    OptNumberEnd(text,
        RunEnd(text, OptCh(text, RunEnd(text, NumberEnd(text, p), Space), "/"), Space))

ExtractGpaFrom(text, digits) ==
    IF digits = {} THEN <<>>
    ELSE SubSeq(text, MinOf(digits), GpaEnd(text, MinOf(digits)) - 1)

\* _extract_gpa
ExtractGpa(text) == ExtractGpaFrom(text, {i \in 1..Len(text) : text[i] \in Digits})

\* EducationEntry(institution=..., degree=..., source_text=text)
NewEducationEntry(text) ==
    [institution |-> ExtractInstitution(text), degree |-> ExtractDegree(text),
     field_of_study |-> NoneStr, start_date |-> NoneStr, end_date |-> NoneStr,
     gpa |-> NoneStr, source_text |-> text]

SetDates(current_entry, dates) ==
    IF dates = <<>> THEN current_entry
    ELSE [current_entry EXCEPT
             !.start_date = dates[1],
             !.end_date = IF Len(dates) > 1 THEN dates[2] ELSE NoneStr]

\* the "elif current_entry:" branch: a date line, else a GPA line
AddEducationInfo(current_entry, text) ==
    IF LooksLikeDate(text) THEN SetDates(current_entry, ExtractDates(text))
    ELSE IF LooksLikeGpa(text) THEN [current_entry EXCEPT !.gpa = ExtractGpa(text)]
    ELSE current_entry

RECURSIVE ParseEducationBlocks(_, _, _, _)
\* the "for block in blocks" loop and the final append
ParseEducationBlocks(blocks, i, entries, current_entry) ==
    IF i > Len(blocks)
    THEN (IF current_entry # None THEN Append(entries, current_entry) ELSE entries)
    ELSE IF HasDegree(blocks[i].text) \/ LooksLikeInstitution(blocks[i].text)
    THEN ParseEducationBlocks(blocks, i + 1,
                              IF current_entry # None THEN Append(entries, current_entry)
                              ELSE entries,
                              NewEducationEntry(blocks[i].text))
    ELSE IF current_entry # None
    THEN ParseEducationBlocks(blocks, i + 1, entries,
                              AddEducationInfo(current_entry, blocks[i].text))
    ELSE ParseEducationBlocks(blocks, i + 1, entries, current_entry)

\* _parse_education
ParseEducation(text, blocks) ==
    ParseEducationBlocks(
        IF blocks = <<>> /\ text # <<>> THEN BlocksFromText(text) ELSE blocks,
        1, <<>>, None)

\* text_blocks[start_idx:end_idx] of a detected section
SectionBlocks(text_blocks, boundaries, section_type) ==
    PySlice(text_blocks, DictGet(boundaries, section_type)[1],
            DictGet(boundaries, section_type)[2])

\* "\n".join(block["text"] for block in section_blocks)
SectionText(section_blocks) ==
    Join([i \in 1..Len(section_blocks) |-> section_blocks[i].text], <<"\n">>)

\* the "for section_type, (start_idx, end_idx) in section_boundaries.items()"
\* loop for the kinds education, experience and skills
ParseSection(text_blocks, boundaries, section_type) ==
    IF ~ DictHas(boundaries, section_type) THEN <<>>
    ELSE IF section_type = "education"
    THEN ParseEducation(SectionText(SectionBlocks(text_blocks, boundaries, section_type)),
                        SectionBlocks(text_blocks, boundaries, section_type))
    ELSE IF section_type = "experience"
    THEN ParseExperience(SectionText(SectionBlocks(text_blocks, boundaries, section_type)),
                         SectionBlocks(text_blocks, boundaries, section_type))
    ELSE ParseSkills(SectionText(SectionBlocks(text_blocks, boundaries, section_type)),
                     SectionBlocks(text_blocks, boundaries, section_type))

\* the raw-text fallback of one kind: the text extracted, no string when the
\* block-based entries were not empty and no extraction was made
FallbackText(raw_text, entries, section_type) ==
    IF entries = <<>> THEN ExtractSectionFromRawText(raw_text, section_type) ELSE NoneStr

\* sections["experience"] after the fallback
ExperienceAfterFallback(entries, exp_text) ==
    IF exp_text # NoneStr /\ exp_text # <<>> THEN ParseExperience(exp_text, <<>>) ELSE entries

\* sections["education"] after the fallback
EducationAfterFallback(entries, edu_text) ==
    IF edu_text # NoneStr /\ edu_text # <<>> THEN ParseEducation(edu_text, <<>>) ELSE entries

CanonicalNames(skills) == {skills[k].canonical_name : k \in 1..Len(skills)}

\* the result of detect_sections with the intermediate values it was built from
SectionsResult(block_experience, block_education, exp_text, edu_text, section_skills, all_skills) ==
    [block_experience |-> block_experience,
     block_education |-> block_education,
     exp_text |-> exp_text,
     edu_text |-> edu_text,
     section_skills |-> section_skills,
     all_skills |-> all_skills,
     sections |->
        [experience |-> ExperienceAfterFallback(block_experience, exp_text),
         education |-> EducationAfterFallback(block_education, edu_text),
         skills |-> MergeSkills(section_skills, all_skills, 1, CanonicalNames(section_skills))]]

DetectParsed(raw_text, block_experience, block_education, section_skills) ==
    SectionsResult(block_experience, block_education,
                   FallbackText(raw_text, block_experience, "experience"),
                   FallbackText(raw_text, block_education, "education"),
                   section_skills, ExtractSkillsFromText(raw_text))

DetectBounded(raw_text, text_blocks, boundaries) ==
    DetectParsed(raw_text,
                 ParseSection(text_blocks, boundaries, "experience"),
                 ParseSection(text_blocks, boundaries, "education"),
                 ParseSection(text_blocks, boundaries, "skills"))

\* detect_sections
DetectSections(raw_text, text_blocks) ==
    DetectBounded(raw_text, text_blocks, FindSectionBoundaries(text_blocks))

-----------------------------------------------------------------------------
(* SpecDoc: detect_sections on the raw text and the blocks of one document *)

\* a block as parse_docx makes it from a paragraph
MkDocBlock(text) == [text |-> text, left |-> 0, is_bold |-> FALSE]

\* raw_text: the paragraphs joined by newlines
RawTextOf(text_blocks) ==
    Join([i \in 1..Len(text_blocks) |-> text_blocks[i].text], <<"\n">>)

hSkills == <<"S", "k", "i", "l", "l", "s">>
hExperience == <<"E", "x", "p", "e", "r", "i", "e", "n", "c", "e">>
hEducation == <<"E", "d", "u", "c", "a", "t", "i", "o", "n">>
AnalystLine == <<"D", "a", "t", "a", " ", "A", "n", "a", "l", "y", "s", "t", ",", " ", "P", "y", "t", "h", "o", "n">>
ExperiencedLine == <<"E", "x", "p", "e", "r", "i", "e", "n", "c", "e", "d", " ", "a", "n", "a", "l", "y", "s", "t", ":", " ", "a", "m", "a", "z", "o", "n", " ", "w", "e", "b", " ", "s", "e", "r", "v", "i", "c", "e", "s", ",", " ", "A", "W", "S", ",", " ", "J", "a", "v", "a", " ", "a", "n", "d", " ", "S", "Q", "L", " ", "r", "e", "p", "o", "r", "t", "i", "n", "g">>
DegreeLine == <<"D", "e", "g", "r", "e", "e", ":", " ", "c", "o", "u", "r", "s", "e", "w", "o", "r", "k", " ", "i", "n", " ", "s", "t", "a", "t", "i", "s", "t", "i", "c", "s", " ", "a", "n", "d", " ", "p", "r", "o", "b", "a", "b", "i", "l", "i", "t", "y", " ", "t", "h", "e", "o", "r", "y", ",", " ", "2", "0", "1", "8", " ", "t", "o", " ", "2", "0", "2", "1">>

DocBlockTexts ==
    {hSkills, hExperience, hEducation, AnalystLine, ExperiencedLine, DegreeLine}

ShortDocuments ==
    {[i \in 1..Len(texts) |-> MkDocBlock(texts[i])] :
        texts \in SeqsUpTo(DocBlockTexts, MaxDocBlocks) \ {<<>>}}

\* a paragraph longer than the 2000-character limit that holds no job title,
\* no degree and no skill
FillerPhrase == <<"b", "u", "i", "l", "t", " ", "r", "e", "p", "o", "r", "t", "s", " ">>
LongChars == MaxSectionChars + 20
LongParagraph == [i \in 1..LongChars |-> FillerPhrase[((i - 1) % Len(FillerPhrase)) + 1]]

LongDocuments ==
    {<<MkDocBlock(hExperience), MkDocBlock(LongParagraph), MkDocBlock(hSkills)>>,
     <<MkDocBlock(hExperience), MkDocBlock(LongParagraph)>>,
     <<MkDocBlock(hEducation), MkDocBlock(LongParagraph), MkDocBlock(hExperience)>>,
     <<MkDocBlock(hEducation), MkDocBlock(LongParagraph)>>}

DocInit == SegInit

\* detect_sections(raw_text, text_blocks)
DetectSectionsCall(text_blocks) ==
    /\ docIn' = [raw_text |-> RawTextOf(text_blocks), text_blocks |-> text_blocks]
    /\ docOut' = DetectSections(RawTextOf(text_blocks), text_blocks)
    /\ UNCHANGED <<envVars, normVars, evalVars, segVars, expVars, thrVars, apiVars>>

DetectShortDocument ==
    /\ docIn = None
    /\ \E text_blocks \in ShortDocuments : DetectSectionsCall(text_blocks)

DetectLongDocument ==
    /\ docIn = None
    /\ \E text_blocks \in LongDocuments : DetectSectionsCall(text_blocks)

DocNext == DetectShortDocument \/ DetectLongDocument

SpecDoc == DocInit /\ [][DocNext]_vars

\* C22: after detect_sections no two skills of sections["skills"] share a
\* canonical name; the skills parsed from the skills section come first, as
\* parsed, and after them the skills of the whole document whose canonical name
\* the section did not give, in their order, so that every skill of the whole
\* document is present under its canonical name.
SkillsUniqueSectionFirst ==
    docIn # None =>
        LET skills == docOut.sections.skills
            kept == docOut.section_skills
            whole == ExtractSkillsFromText(docIn.raw_text)
        IN  /\ \A i, j \in 1..Len(skills) :
                   skills[i].canonical_name = skills[j].canonical_name => i = j
            /\ SubSeq(skills, 1, Len(kept)) = kept
            /\ SubSeq(skills, Len(kept) + 1, Len(skills)) =
                   SelectSeq(whole, LAMBDA s : s.canonical_name \notin CanonicalNames(kept))
            /\ CanonicalNames(whole) \subseteq CanonicalNames(skills)

\* a skill found in the skills section and, with another context, in the whole
\* document, and a skill of the whole document appended after the section's
SectionSkillKeptDocumentSkillAppended ==
    /\ docIn # None
    /\ docOut.section_skills # <<>>
    /\ Len(docOut.sections.skills) > Len(docOut.section_skills)
    /\ \E i \in 1..Len(docOut.all_skills) :
          /\ docOut.all_skills[i].canonical_name = docOut.section_skills[1].canonical_name
          /\ docOut.all_skills[i].source_text # docOut.section_skills[1].source_text
          /\ docOut.sections.skills[1] = docOut.section_skills[1]

\* C23: the raw-text fallback of a kind is attempted exactly when the blocks
\* gave no entry of that kind, and the text it extracts is empty or has more
\* than 50 and at most 2000 characters.
FallbackTextBounded ==
    docIn # None =>
        /\ (docOut.exp_text # NoneStr) <=> (docOut.block_experience = <<>>)
        /\ (docOut.edu_text # NoneStr) <=> (docOut.block_education = <<>>)
        /\ \A t \in {docOut.exp_text, docOut.edu_text} \ {NoneStr} :
              Len(t) = 0 \/ (Len(t) > MinSectionChars /\ Len(t) <= MaxSectionChars)

\* the documents in which no line after the first header starts a next section
NoNextSection(raw_text, headers, next_section) ==
    SearchLine(headers, raw_text) # None =>
        SearchLine(next_section,
                   PySlice(raw_text, SearchLine(headers, raw_text).end, Len(raw_text))) = None

\* the same statement for the extractions that find no following header
FallbackTextBoundedWithoutNextHeader ==
    docIn # None =>
        /\ (docOut.exp_text # NoneStr) <=> (docOut.block_experience = <<>>)
        /\ (docOut.edu_text # NoneStr) <=> (docOut.block_education = <<>>)
        /\ (docOut.exp_text # NoneStr
              /\ NoNextSection(docIn.raw_text, ExperienceHeaders, ExperienceNextSection))
           => Len(docOut.exp_text) = 0
                 \/ (Len(docOut.exp_text) > MinSectionChars
                       /\ Len(docOut.exp_text) <= MaxSectionChars)
        /\ (docOut.edu_text # NoneStr
              /\ NoNextSection(docIn.raw_text, EducationHeaders, EducationNextSection))
           => Len(docOut.edu_text) = 0
                 \/ (Len(docOut.edu_text) > MinSectionChars
                       /\ Len(docOut.edu_text) <= MaxSectionChars)

-----------------------------------------------------------------------------
(* api/routes.py with services/session_manager.py: the handlers of the API on
   one storage directory and one upload directory (the reports that a PDF
   export writes below it are not kept).  parse_resume and
   parse_job_description are taken as given: a request carries the
   ParsedResume or ParsedJobDescription that its file or text parses to, or
   the failure of the parser.  Failures of the file system are left out. *)

\* cleanup_old_sessions(max_age_hours=24)
MaxAgeHours == 24

\* datetime.now(), in hours
Now == clock * TickHours

SessionIds == 1..MaxSessions

\* SessionData(session_id=..., created_at=now, updated_at=now)
SessionData(session_id, resume, job_description, now) ==
    [session_id |-> session_id, resume |-> resume, job_description |-> job_description,
     evaluation |-> None, created_at |-> now, updated_at |-> now]

\* FileSessionManager.save_session: updated_at is set and the file written
SaveSession(store, session, now) ==
    DictPut(store, session.session_id,
            [mtime |-> now, data |-> [session EXCEPT !.updated_at = now]])

\* FileSessionManager.get_session: SessionData.parse_raw of the text that
\* session.json() wrote.  Every field of the schema is a string, a number, an
\* enum member, a datetime, a list or a nested model, each of which json() and
\* parse_raw give back as it was stored.
GetSession(store, session_id) ==
    IF DictHas(store, session_id) THEN DictGet(store, session_id).data ELSE None

\* FileSessionManager.delete_session
DeleteSessionFile(store, session_id) == SelectSeq(store, LAMBDA e : e.k # session_id)

\* the session files with mtime < cutoff
ExpiredIds(store, now) ==
    {store[i].k : i \in {i \in 1..Len(store) : store[i].v.mtime < now - MaxAgeHours}}

\* FileSessionManager.cleanup_old_sessions
CleanupOldSessions(store, now) ==
    SelectSeq(store, LAMBDA e : e.k \notin ExpiredIds(store, now))

\* a request and its response
Response(op, session_id, status, body) ==
    [op |-> op, session_id |-> session_id, status |-> status, body |-> body]

\* raise HTTPException(status_code=status, ...)
HttpError(op, session_id, status) == Response(op, session_id, status, None)

ParseError == [st |-> "raise", exc |-> "Exception"]

ApiResumes ==
    {MkInput(<<>>, <<>>, <<>>, MockBackground).resume,
     MkInput(MockResumeSkills, <<>>, <<>>, MockBackground).resume}

ApiJds ==
    {MkInput(<<>>, <<sPython, sReact>>, <<sAWS, sDocker>>, MockBackground).job_description,
     MkInput(<<>>, <<>>, <<>>, MockBackground).job_description}

ePdf == <<"p", "d", "f">>
eDocx == <<"d", "o", "c", "x">>

\* the uploads: no filename, a text file, a PDF that parse_resume fails on and
\* a PDF of each resume
UploadFiles ==
    {[filename |-> <<>>, contents |-> ParseError],
     [filename |-> <<"n", "o", "t", "e", "s", ".", "t", "x", "t">>, contents |-> ParseError],
     [filename |-> <<"b", "r", "o", "k", "e", "n", ".", "p", "d", "f">>, contents |-> ParseError]}
    \cup {[filename |-> <<"c", "v", ".", "P", "D", "F">>, contents |-> r] : r \in ApiResumes}

\* file.filename.lower().split(".")[-1]
FileExt(filename) ==
    SplitOn(Lower(filename), {"."})[Len(SplitOn(Lower(filename), {"."}))]

\* the session with its resume replaced (update_resume)
WithResumeClearingEvaluation(session, resume, now) ==
    [session EXCEPT !.resume = resume, !.evaluation = None, !.updated_at = now]

WithResume(session, resume, now) ==
    [session EXCEPT !.resume = resume, !.updated_at = now]

\* the session with its job description replaced (analyze_job_description)
WithJobDescription(session, parsed_jd, now) ==
    [session EXCEPT !.job_description = parsed_jd, !.updated_at = now]

\* evaluate_resume from "Run evaluation" on, storing what evaluate left even
\* when it raised
EvaluateOutcomeStoringFailure(store, session, result, now) ==
    [sessions |-> SaveSession(store, [session EXCEPT !.evaluation = result,
                                                     !.updated_at = now], now),
     status |-> IF result.st = "raise" THEN 500 ELSE 200,
     body |-> IF result.st = "raise" THEN None
              ELSE [session_id |-> session.session_id, result |-> result,
                    evaluated_at |-> now]]

\* evaluate_resume from "Run evaluation" on: HTTP 500 when evaluate raised,
\* else the result stored in the session and returned
EvaluateOutcome(store, session, result, now) ==
    IF result.st = "raise"
    THEN [sessions |-> store, status |-> 500, body |-> None]
    ELSE [sessions |-> SaveSession(store, [session EXCEPT !.evaluation = result,
                                                          !.updated_at = now], now),
          status |-> 200,
          body |-> [session_id |-> session.session_id, result |-> result,
                    evaluated_at |-> now]]

\* get_results without the test of session.evaluation
GetResultsUnchecked(session_id, session) ==
    IF session = None THEN HttpError("results", session_id, 404)
    ELSE Response("results", session_id, 200,
                  [session_id |-> session_id, result |-> session.evaluation,
                   evaluated_at |-> session.updated_at])

\* get_results
GetResultsResponse(session_id, session) ==
    IF session = None THEN HttpError("results", session_id, 404)
    ELSE IF session.evaluation = None THEN HttpError("results", session_id, 404)
    ELSE Response("results", session_id, 200,
                  [session_id |-> session_id, result |-> session.evaluation,
                   evaluated_at |-> session.updated_at])

\* export_results; importable tells whether exports.pdf_export can be imported
ExportResultsResponse(session_id, format, importable, session, now) ==
    IF session = None THEN HttpError("export", session_id, 404)
    ELSE IF session.evaluation = None THEN HttpError("export", session_id, 404)
    ELSE IF format = "pdf" /\ ~ importable THEN HttpError("export", session_id, 501)
    ELSE IF format = "pdf"
    THEN Response("export", session_id, 200,
                  [format |-> "pdf", evaluation |-> session.evaluation])
    ELSE Response("export", session_id, 200,
                  [format |-> "json", session_id |-> session_id,
                   evaluation |-> session.evaluation,
                   resume_skills_count |->
                       IF session.resume # None THEN Len(session.resume.skills) ELSE 0,
                   exported_at |-> now])

-----------------------------------------------------------------------------
(* SpecApi: requests to the API of one process, and the passing of time *)

ApiInit ==
    /\ skillsYaml \in {TaxTech, TaxEmpty} /\ configYaml = DefaultConfig
    /\ normalizer = None /\ engine = None
    /\ NormIdle
    /\ EvalIdle
    /\ ParsersIdle

\* a handler that leaves both directories as they are
DirectoriesUnchanged == UNCHANGED <<sessions, uuids, uploads, removed>>

\* POST /upload-resume
UploadResume ==
    /\ \E file \in UploadFiles :
          IF file.filename = <<>>
          THEN /\ apiResp' = HttpError("upload_resume", 0, 400)
               /\ DirectoriesUnchanged
          ELSE IF FileExt(file.filename) \notin {ePdf, eDocx}
          THEN /\ apiResp' = HttpError("upload_resume", 0, 400)
               /\ DirectoriesUnchanged
          ELSE IF file.contents = ParseError
          \* the file is written, parse_resume raises, the file is removed
          THEN /\ apiResp' = HttpError("upload_resume", 0, 500)
               /\ DirectoriesUnchanged
          ELSE /\ uuids < MaxSessions
               /\ Len(CleanupOldSessions(sessions, Now)) < MaxStored
               /\ uuids' = uuids + 1
               /\ uploads' = uploads \cup {<<uuids + 1, FileExt(file.filename)>>}
               /\ sessions' = CleanupOldSessions(
                                  SaveSession(sessions,
                                      SessionData(uuids + 1, file.contents, None, Now), Now),
                                  Now)
               /\ removed' = removed \cup
                                {[session_id |-> id, how |-> "cleanup"] :
                                    id \in ExpiredIds(sessions, Now)}
               /\ apiResp' = Response("upload_resume", uuids + 1, 200,
                                      [session_id |-> uuids + 1,
                                       filename |-> file.filename,
                                       parsed_resume |-> file.contents])
    /\ UNCHANGED <<clock, lastEval, envVars, normVars, evalVars, segVars, expVars, docVars, thrVars>>

\* POST /analyze-jd; session_id 0 stands for a request without session_id
AnalyzeJobDescription ==
    /\ \E session_id \in SessionIds \cup {0}, parsed_jd \in ApiJds \cup {ParseError} :
          IF parsed_jd = ParseError
          THEN /\ apiResp' = HttpError("analyze_jd", session_id, 500)
               /\ DirectoriesUnchanged
          ELSE IF session_id # 0 /\ GetSession(sessions, session_id) # None
          THEN /\ sessions' = SaveSession(sessions,
                                  WithJobDescription(GetSession(sessions, session_id),
                                                     parsed_jd, Now), Now)
               /\ apiResp' = Response("analyze_jd", session_id, 200,
                                      [session_id |-> session_id, parsed_jd |-> parsed_jd])
               /\ UNCHANGED <<uuids, uploads, removed>>
          ELSE /\ uuids < MaxSessions
               /\ Len(sessions) < MaxStored
               /\ uuids' = uuids + 1
               /\ sessions' = SaveSession(sessions,
                                  SessionData(uuids + 1, None, parsed_jd, Now), Now)
               /\ apiResp' = Response("analyze_jd", session_id, 200,
                                      [session_id |-> uuids + 1, parsed_jd |-> parsed_jd])
               /\ UNCHANGED <<uploads, removed>>
    /\ UNCHANGED <<clock, lastEval, envVars, normVars, evalVars, segVars, expVars, docVars, thrVars>>

\* evaluate_resume once rules.evaluate has returned or raised
EvaluateDone(session_id, out) ==
    /\ sessions' = out.sessions
    /\ apiResp' = Response("evaluate", session_id, out.status, out.body)
    /\ lastEval' = IF out.status = 200 THEN DictPut(lastEval, session_id, out.body.result)
                   ELSE lastEval
    /\ engine' = GetEngine
    /\ normalizer' = GetNormalizer

\* POST /evaluate
EvaluateResume ==
    /\ \E session_id \in SessionIds :
          IF GetSession(sessions, session_id) = None
          THEN /\ apiResp' = HttpError("evaluate", session_id, 404)
               /\ UNCHANGED <<sessions, lastEval, engine, normalizer>>
          ELSE IF GetSession(sessions, session_id).resume = None
          THEN /\ apiResp' = HttpError("evaluate", session_id, 400)
               /\ UNCHANGED <<sessions, lastEval, engine, normalizer>>
          ELSE IF GetSession(sessions, session_id).job_description = None
          THEN /\ apiResp' = HttpError("evaluate", session_id, 400)
               /\ UNCHANGED <<sessions, lastEval, engine, normalizer>>
          ELSE EvaluateDone(session_id,
                   EvaluateOutcome(sessions, GetSession(sessions, session_id),
                       Evaluate(GetEngine, GetNormalizer,
                                GetSession(sessions, session_id).resume,
                                GetSession(sessions, session_id).job_description),
                       Now))
    /\ UNCHANGED <<uuids, uploads, removed, clock, skillsYaml, configYaml>>
    /\ UNCHANGED <<normVars, evalVars, segVars, expVars, docVars, thrVars>>

\* GET /results/{session_id}
GetResults ==
    /\ \E session_id \in SessionIds :
          apiResp' = GetResultsResponse(session_id, GetSession(sessions, session_id))
    /\ DirectoriesUnchanged
    /\ UNCHANGED <<clock, lastEval, envVars, normVars, evalVars, segVars, expVars, docVars, thrVars>>

\* GET /export/{session_id}?format=...
ExportResults ==
    /\ \E session_id \in SessionIds, format \in {"pdf", "json"}, importable \in BOOLEAN :
          apiResp' = ExportResultsResponse(session_id, format, importable,
                                           GetSession(sessions, session_id), Now)
    /\ DirectoriesUnchanged
    /\ UNCHANGED <<clock, lastEval, envVars, normVars, evalVars, segVars, expVars, docVars, thrVars>>

\* GET /session/{session_id}
GetSessionData ==
    /\ \E session_id \in SessionIds :
          apiResp' = IF GetSession(sessions, session_id) = None
                     THEN HttpError("session", session_id, 404)
                     ELSE Response("session", session_id, 200,
                                   GetSession(sessions, session_id))
    /\ DirectoriesUnchanged
    /\ UNCHANGED <<clock, lastEval, envVars, normVars, evalVars, segVars, expVars, docVars, thrVars>>

\* DELETE /session/{session_id}
DeleteSession ==
    /\ \E session_id \in SessionIds :
          IF GetSession(sessions, session_id) = None
          THEN /\ apiResp' = HttpError("delete", session_id, 404)
               /\ UNCHANGED <<sessions, uploads, removed>>
          ELSE /\ uploads' = uploads \ {<<session_id, ePdf>>, <<session_id, eDocx>>}
               /\ sessions' = DeleteSessionFile(sessions, session_id)
               /\ removed' = removed \cup {[session_id |-> session_id, how |-> "delete"]}
               /\ apiResp' = Response("delete", session_id, 200,
                                      [message |-> "Session deleted successfully"])
    /\ UNCHANGED <<uuids, clock, lastEval, envVars, normVars, evalVars, segVars, expVars, docVars, thrVars>>

\* PUT /session/{session_id}/resume
UpdateResume ==
    /\ \E session_id \in SessionIds, resume \in ApiResumes :
          IF GetSession(sessions, session_id) = None
          THEN /\ apiResp' = HttpError("update_resume", session_id, 404)
               /\ UNCHANGED sessions
          ELSE /\ sessions' = SaveSession(sessions,
                                  WithResume(GetSession(sessions, session_id), resume, Now),
                                  Now)
               /\ apiResp' = Response("update_resume", session_id, 200,
                                      WithResume(GetSession(sessions, session_id), resume, Now))
    /\ UNCHANGED <<uuids, uploads, removed>>
    /\ UNCHANGED <<clock, lastEval, envVars, normVars, evalVars, segVars, expVars, docVars, thrVars>>

\* the wall clock advances between two requests
Tick ==
    /\ clock < MaxTicks
    /\ clock' = clock + 1
    /\ UNCHANGED <<sessions, uuids, uploads, apiResp, lastEval, removed>>
    /\ UNCHANGED <<envVars, normVars, evalVars, segVars, expVars, docVars, thrVars>>

ApiNext ==
    \/ UploadResume
    \/ AnalyzeJobDescription
    \/ EvaluateResume
    \/ GetResults
    \/ ExportResults
    \/ GetSessionData
    \/ DeleteSession
    \/ UpdateResume
    \/ Tick

SpecApi == ApiInit /\ [][ApiNext]_vars

\* C28: POST /evaluate answers 404 for a session that is not stored and 400 for
\* a stored session without resume or without job description; with these
\* answers, and with 500 when evaluate raised, the storage directory is left as
\* it was; with 200 both documents were present, evaluate returned, and the
\* session differs from the one found only in its evaluation, the result
\* returned, and in updated_at.
EvaluateStoresOnlySuccess ==
    [][(clock' = clock /\ apiResp'.op = "evaluate") =>
          LET before == GetSession(sessions, apiResp'.session_id)
              after == GetSession(sessions', apiResp'.session_id)
          IN  /\ apiResp'.status \in {200, 400, 404, 500}
              /\ before = None => apiResp'.status = 404
              /\ (before # None /\ before.resume = None) => apiResp'.status = 400
              /\ (before # None /\ before.job_description = None) => apiResp'.status = 400
              /\ apiResp'.status # 200 => sessions' = sessions
              /\ apiResp'.status = 200 =>
                    /\ before # None
                    /\ before.resume # None /\ before.job_description # None
                    /\ apiResp'.body.result.st = "ok"
                    /\ after = [before EXCEPT !.evaluation = apiResp'.body.result,
                                              !.updated_at = Now]]_vars

\* an evaluate that raised on a session holding the result of an earlier one
EvaluateRaisedAfterSuccess ==
    /\ apiResp # None
    /\ apiResp.op = "evaluate" /\ apiResp.status = 500
    /\ GetSession(sessions, apiResp.session_id).evaluation # None

\* the evaluation a GET /results or GET /export response carries
ReturnedEvaluation(resp) ==
    IF resp.op = "results" THEN resp.body.result ELSE resp.body.evaluation

ReplacesOnlyTheDocument ==
    [][clock' = clock =>
          LET before == GetSession(sessions, apiResp'.session_id)
              after == GetSession(sessions', apiResp'.session_id)
          IN  /\ (apiResp'.op = "update_resume" /\ before = None) =>
                    /\ apiResp'.status = 404
                    /\ sessions' = sessions /\ uuids' = uuids
              /\ (apiResp'.op = "update_resume" /\ before # None) =>
                    /\ apiResp'.status = 200
                    /\ after = [before EXCEPT !.resume = apiResp'.body.resume,
                                              !.updated_at = Now]
                    /\ DictKeys(sessions') = DictKeys(sessions)
              /\ (apiResp'.op = "analyze_jd" /\ apiResp'.status = 200 /\ before # None) =>
                    /\ after = [before EXCEPT !.job_description = apiResp'.body.parsed_jd,
                                              !.updated_at = Now]
                    /\ DictKeys(sessions') = DictKeys(sessions)]_vars

\* a resume replaced by one without skills under an evaluation that matched skills
EvaluationKeptAfterUpdate ==
    /\ apiResp # None
    /\ apiResp.op = "update_resume" /\ apiResp.status = 200
    /\ apiResp.body.evaluation # None
    /\ apiResp.body.resume.skills = <<>>
    /\ apiResp.body.evaluation.matched_count > 0
    /\ GetSession(sessions, apiResp.session_id).evaluation = apiResp.body.evaluation

====
